---- MODULE Spec2Model ----
(***************************************************************************)
(* Model of the nevermail-core cache store (src/src/store): the folders,   *)
(* messages and attachments tables of cache.db, and the commands the cache *)
(* worker executes on them (queries.rs), one command at a time             *)
(* (handle.rs run_loop).                                                   *)
(*                                                                         *)
(* Columns that no statement of queries.rs reads in a WHERE clause and     *)
(* that carry no flag state (name, counts, subject, sender, date, ...)     *)
(* are not represented; every statement is otherwise modelled row by row.  *)
(***************************************************************************)
EXTENDS Integers, Sequences, FiniteSets, TLC

(***************************************************************************)
(* Universe of the inputs.                                                 *)
(***************************************************************************)
NULL == "NULL"

\* account_id given to rows of a database that predates multi-account
\* support (schema.rs: ADD COLUMN account_id TEXT DEFAULT '').
LegacyAccount == ""

\* account_id values of the rows in the store
Accounts == {"a", LegacyAccount}

\* The accounts commands are issued for: those of the configuration, whose
\* id is a UUID or "env-account" (config.rs), never the empty string.
ConfiguredAccounts == {"a"}

Paths == {"INBOX", "Work", "Old"}

MailboxHashes == {1, 2}

EnvelopeHashes == {41, 42}

\* pending_op is a free-form verb
Verbs == {"star", "mark_read"}

\* values of the u8 flag byte given to update_flags / clear_pending_op
FlagBytes == 0 .. 3

\* longest envelope list handed to save_messages
MaxMsgs == 2

\* longest folder list handed to save_folders
MaxFolders == 2

\* most attachments of one body
MaxAtts == 2

\* number of commands executed in one run of the worker
MaxCmds == 2

Keys == Accounts \X EnvelopeHashes

(***************************************************************************)
(* store/flags.rs                                                          *)
(***************************************************************************)
flags_to_u8(is_read, is_starred) ==
    (IF is_read THEN 1 ELSE 0) + (IF is_starred THEN 2 ELSE 0)

flags_from_u8(f) ==
    << (f % 2) # 0, ((f \div 2) % 2) # 0 >>

(***************************************************************************)
(* Rows.                                                                   *)
(***************************************************************************)
NoRow == [absent |-> TRUE]

\* a folders row of one account: (path, mailbox_hash)
Folder(path, mailbox_hash) == [path |-> path, mailbox_hash |-> mailbox_hash]

\* The envelope of models.rs MessageSummary, as handed to save_messages.
MessageSummary(envelope_hash, is_read, is_starred) ==
    [envelope_hash |-> envelope_hash, is_read |-> is_read, is_starred |-> is_starred]

Exists(db, k) == db.messages[k] # NoRow

IsPending(row) == row # NoRow /\ row.pending_op # NULL

(***************************************************************************)
(* Input sets.                                                             *)
(***************************************************************************)
SeqsUpTo(S, n) == UNION { [1 .. i -> S] : i \in 0 .. n }

FolderInputs == { Folder(p, h) : p \in Paths, h \in MailboxHashes }

\* A mailbox listing names each mailbox once (imap.rs builds it from a map
\* keyed by mailbox hash): no path and no mailbox_hash occurs twice.
FolderLists ==
    { F \in SeqsUpTo(FolderInputs, MaxFolders) :
        \A i, j \in 1 .. Len(F) :
            i # j => (F[i].path # F[j].path /\ F[i].mailbox_hash # F[j].mailbox_hash) }

\* envelopes a refresh can bring: read and not starred, or starred and unread
EnvelopeInputs ==
    { MessageSummary(h, r, ~r) : h \in EnvelopeHashes, r \in BOOLEAN }

EnvelopeLists == SeqsUpTo(EnvelopeInputs, MaxMsgs)

\* filenames of the attachments
Filenames == {"a.txt", "b.txt"}

\* attachment lists of a body: each filename at most once
AttachmentLists ==
    { L \in SeqsUpTo(Filenames, MaxAtts) :
        \A i, j \in 1 .. Len(L) : i # j => L[i] # L[j] }

\* (body_markdown, body_plain) pairs handed to save_body; a body may be the
\* empty string
Bodies == { << "md", "plain" >>, << "", "" >> }

(***************************************************************************)
(* State.                                                                  *)
(***************************************************************************)
VARIABLES
    folders,        \* account_id -> set of folders rows
    messages,       \* (account_id, envelope_hash) -> messages row or NoRow
    message_fts,    \* the rows of the FTS index message_fts
    attachments,    \* (account_id, envelope_hash) -> attachments rows by idx
    foreign_keys,   \* whether the SQLite build enforces FOREIGN KEY clauses
    last,           \* the command the worker executed last: its arguments,
                    \* the store it found and its reply
    ncmds,          \* commands executed (Spec) or submitted (SpecHandle) so far
    queue,          \* the commands in the mpsc channel, oldest first
    current,        \* the command blocking_recv returned, not yet executed
    worker,         \* "running", "exited" (run_loop returned) or "panicked"
    task,           \* per task holding a CacheHandle clone: its position, the
                    \* oneshot channel of its call and the call's outcome
    sent,           \* every command in the order tx.send accepted it
    log,            \* every executed command with its reply, in execution order
    eval            \* specifications of the functions: the function applied
                    \* last, its input and its result

handle_vars == << queue, current, worker, task, sent, log >>

vars == << folders, messages, message_fts, attachments, foreign_keys, last, ncmds,
           queue, current, worker, task, sent, log, eval >>

DB == [folders |-> folders, messages |-> messages, attachments |-> attachments]

Ok(db) == [ok |-> TRUE, db |-> db]

Err(db) == [ok |-> FALSE, db |-> db]

(***************************************************************************)
(* SQL building blocks.  A statement that violates a constraint fails, and *)
(* the command that issued it inside a transaction returns Err with the    *)
(* store rolled back to what it was before the command.                    *)
(***************************************************************************)
AccountKeys(A) == { k \in Keys : k[1] = A }

\* Variant: the account_id condition left out of the WHERE clause.
MailboxKeys_AnyAccount(db, A, mb) ==
    { k \in Keys : Exists(db, k) /\ db.messages[k].mailbox_hash = mb }

\* SELECT envelope_hash FROM messages WHERE account_id = A AND mailbox_hash = mb
MailboxKeys(db, A, mb) ==
    { k \in AccountKeys(A) : Exists(db, k) /\ db.messages[k].mailbox_hash = mb }

\* DELETE FROM attachments WHERE (account_id, envelope_hash) IN ks
DeleteAttachments(db, ks) ==
    [db EXCEPT !.attachments = [k \in Keys |-> IF k \in ks THEN << >> ELSE @[k]]]

\* DELETE FROM messages WHERE (account_id, envelope_hash) IN ks.  With
\* foreign keys enforced, ON DELETE CASCADE removes the attachments rows too
\* (schema.rs SCHEMA, attachments).
DeleteMessages(db, ks) ==
    [db EXCEPT !.messages = [k \in Keys |-> IF k \in ks THEN NoRow ELSE @[k]],
               !.attachments = [k \in Keys |->
                    IF foreign_keys /\ k \in ks THEN << >> ELSE @[k]]]

\* mailbox_hash values of the folders rows of A
FolderHashes(db, A) == { r.mailbox_hash : r \in db.folders[A] }

\* FOREIGN KEY (account_id, mailbox_hash) REFERENCES folders: some messages
\* row of A has no folders row.
DanglingMailbox(db, A) ==
    \E k \in AccountKeys(A) :
        Exists(db, k) /\ db.messages[k].mailbox_hash \notin FolderHashes(db, A)

(***************************************************************************)
(* queries.rs do_save_folders                                              *)
(***************************************************************************)
\* INSERT INTO folders ... ON CONFLICT(account_id, path) DO UPDATE SET
\* mailbox_hash = excluded.mailbox_hash.  UNIQUE (account_id, mailbox_hash)
\* is not the conflict target: a row of another path with that hash aborts
\* the statement.
\* Variant: the folders table without UNIQUE (account_id, mailbox_hash).
UpsertFolder_NoUnique(db, A, f) ==
    LET others == { r \in db.folders[A] : r.path # f.path }
        new    == [db EXCEPT !.folders[A] = others \cup {f}]
    IN  IF foreign_keys /\ DanglingMailbox(new, A)
        THEN Err(db)
        ELSE Ok(new)

UpsertFolder(db, A, f) ==
    LET others == { r \in db.folders[A] : r.path # f.path }
        new    == [db EXCEPT !.folders[A] = others \cup {f}]
    IN  IF \E r \in others : r.mailbox_hash = f.mailbox_hash
        THEN Err(db)
        ELSE IF foreign_keys /\ DanglingMailbox(new, A)
        THEN Err(db)
        ELSE Ok(new)

RECURSIVE UpsertFolders(_, _, _, _)
UpsertFolders(db, A, F, i) ==
    IF i > Len(F) THEN Ok(db)
    ELSE LET r == UpsertFolder(db, A, F[i])
         IN  IF r.ok THEN UpsertFolders(r.db, A, F, i + 1) ELSE r

\* server_hashes
ServerHashes(F) == { F[i].mailbox_hash : i \in 1 .. Len(F) }

\* SELECT envelope_hash FROM messages WHERE account_id = A
\*   [AND mailbox_hash NOT IN (server_hashes)]
SweptByFolders(db, A, F) ==
    IF ServerHashes(F) = {}
    THEN { k \in AccountKeys(A) : Exists(db, k) }
    ELSE { k \in AccountKeys(A) :
             Exists(db, k) /\ db.messages[k].mailbox_hash \notin ServerHashes(F) }

\* DELETE FROM folders WHERE account_id = A [AND mailbox_hash NOT IN (...)]
DeleteFolders(db, A, F) ==
    IF ServerHashes(F) = {}
    THEN [db EXCEPT !.folders[A] = {}]
    ELSE [db EXCEPT !.folders[A] = { r \in @ : r.mailbox_hash \in ServerHashes(F) }]

\* The sweep: attachments of the swept messages, the messages, the folders.
SweepFolders(db, A, F) ==
    LET ks == SweptByFolders(db, A, F)
        d  == DeleteFolders(DeleteMessages(DeleteAttachments(db, ks), ks), A, F)
    IN  IF foreign_keys /\ DanglingMailbox(d, A) THEN Err(db) ELSE Ok(d)

\* Variant: a failed upsert leaves the rows written before it in place.
do_save_folders_NoRollback(db, A, F) ==
    LET up == UpsertFolders(db, A, F, 1)
    IN  IF ~up.ok THEN up
        ELSE LET sw == SweepFolders(up.db, A, F)
             IN  IF sw.ok THEN sw ELSE Err(db)

do_save_folders(db, A, F) ==
    LET up == UpsertFolders(db, A, F, 1)
    IN  IF ~up.ok THEN Err(db)
        ELSE LET sw == SweepFolders(up.db, A, F)
             IN  IF sw.ok THEN sw ELSE Err(db)

\* queries.rs do_load_folders (the rows; their order is not represented)
do_load_folders(db, A) == db.folders[A]

(***************************************************************************)
(* queries.rs do_save_messages                                             *)
(***************************************************************************)
\* pending_set
PendingSet(db, A, mb) ==
    { k[2] : k \in { q \in MailboxKeys(db, A, mb) : IsPending(db.messages[q]) } }

\* Variant: the sweep without "AND pending_op IS NULL".
SweptByMessages_All(db, A, mb) == MailboxKeys(db, A, mb)

\* DELETE FROM attachments / messages WHERE account_id = A AND
\* mailbox_hash = mb AND pending_op IS NULL
SweptByMessages(db, A, mb) ==
    { k \in MailboxKeys(db, A, mb) : ~IsPending(db.messages[k]) }

SweepMessages(db, A, mb) ==
    LET ks == SweptByMessages(db, A, mb)
    IN  DeleteMessages(DeleteAttachments(db, ks), ks)

\* Variant: the refresh of a pending row also writes flags_local.
UpdateServerColumns_LocalToo(db, A, m) ==
    LET k == << A, m.envelope_hash >>
    IN  IF IsPending(db.messages[k])
        THEN [db EXCEPT !.messages[k].flags_server =
                            flags_to_u8(m.is_read, m.is_starred),
                        !.messages[k].flags_local =
                            flags_to_u8(m.is_read, m.is_starred)]
        ELSE db

\* UPDATE messages SET flags_server = ?1, ... WHERE account_id = A AND
\* envelope_hash = h AND pending_op IS NOT NULL
UpdateServerColumns(db, A, m) ==
    LET k == << A, m.envelope_hash >>
    IN  IF IsPending(db.messages[k])
        THEN [db EXCEPT !.messages[k].flags_server =
                            flags_to_u8(m.is_read, m.is_starred)]
        ELSE db

\* Variant: the insert leaves flags_local to its column default.
FreshRow_DefaultLocal(mb, m) ==
    [mailbox_hash  |-> mb,
     is_read       |-> m.is_read,
     is_starred    |-> m.is_starred,
     flags_server  |-> flags_to_u8(m.is_read, m.is_starred),
     flags_local   |-> 0,
     pending_op    |-> NULL,
     body_rendered |-> NULL,
     body_markdown |-> NULL]

\* The row of a fresh insert: server and local flags agree, pending_op and
\* the body columns take their NULL default.
FreshRow(mb, m) ==
    [mailbox_hash  |-> mb,
     is_read       |-> m.is_read,
     is_starred    |-> m.is_starred,
     flags_server  |-> flags_to_u8(m.is_read, m.is_starred),
     flags_local   |-> flags_to_u8(m.is_read, m.is_starred),
     pending_op    |-> NULL,
     body_rendered |-> NULL,
     body_markdown |-> NULL]

\* INSERT OR IGNORE INTO messages: a row with the same (account_id,
\* envelope_hash) makes the statement a no-op; OR IGNORE does not cover a
\* foreign-key violation, which aborts.
InsertOrIgnore(db, A, mb, m) ==
    LET k == << A, m.envelope_hash >>
    IN  IF Exists(db, k) THEN Ok(db)
        ELSE IF foreign_keys /\ mb \notin FolderHashes(db, A) THEN Err(db)
        ELSE Ok([db EXCEPT !.messages[k] = FreshRow(mb, m)])

RECURSIVE SaveEach(_, _, _, _, _, _)
SaveEach(db, A, mb, M, pending_set, i) ==
    IF i > Len(M) THEN Ok(db)
    ELSE IF M[i].envelope_hash \in pending_set
    THEN SaveEach(UpdateServerColumns(db, A, M[i]), A, mb, M, pending_set, i + 1)
    ELSE LET r == InsertOrIgnore(db, A, mb, M[i])
         IN  IF r.ok THEN SaveEach(r.db, A, mb, M, pending_set, i + 1) ELSE r

\* Variant: the refresh replaces every row of the mailbox, pending or not.
do_save_messages_Clobber(db, A, mb, M) ==
    LET ks == MailboxKeys(db, A, mb)
        r  == SaveEach(DeleteMessages(DeleteAttachments(db, ks), ks), A, mb, M, {}, 1)
    IN  IF r.ok THEN r ELSE Err(db)

do_save_messages(db, A, mb, M) ==
    LET r == SaveEach(SweepMessages(db, A, mb), A, mb, M, PendingSet(db, A, mb), 1)
    IN  IF r.ok THEN r ELSE Err(db)

(***************************************************************************)
(* queries.rs row_to_summary / do_load_messages                            *)
(***************************************************************************)
\* Variant: the reader ignores pending_op.
EffectiveFlags_ServerOnly(row) == row.flags_server % 256

\* Dual-truth: if pending_op is set, use flags_local; otherwise flags_server
EffectiveFlags(row) ==
    IF row.pending_op # NULL THEN row.flags_local % 256 ELSE row.flags_server % 256

row_to_summary(envelope_hash, row) ==
    LET f == flags_from_u8(EffectiveFlags(row))
    IN  [envelope_hash |-> envelope_hash,
         mailbox_hash  |-> row.mailbox_hash,
         is_read       |-> f[1],
         is_starred    |-> f[2]]

\* SELECT ... FROM messages WHERE mailbox_hash = ?1 AND account_id = ?4
do_load_messages(db, A, mb) ==
    { row_to_summary(k[2], db.messages[k]) : k \in MailboxKeys(db, A, mb) }

(***************************************************************************)
(* queries.rs do_load_body / do_save_body                                  *)
(***************************************************************************)
do_load_body(db, A, h) ==
    LET k == << A, h >>
    IN  IF ~Exists(db, k) THEN NULL
        ELSE IF db.messages[k].body_rendered = NULL THEN NULL
        ELSE [body_markdown |-> IF db.messages[k].body_markdown = NULL
                                THEN "" ELSE db.messages[k].body_markdown,
              body_plain    |-> db.messages[k].body_rendered,
              attachments   |-> db.attachments[k]]

\* UPDATE messages SET body_rendered = ?1, body_markdown = ?2 WHERE ...
\* Variant: the body update also resets pending_op.
UpdateBody_ClearsPending(db, k, body_markdown, body_plain) ==
    IF Exists(db, k)
    THEN [db EXCEPT !.messages[k].body_rendered = body_plain,
                    !.messages[k].body_markdown = body_markdown,
                    !.messages[k].pending_op = NULL]
    ELSE db

UpdateBody(db, k, body_markdown, body_plain) ==
    IF Exists(db, k)
    THEN [db EXCEPT !.messages[k].body_rendered = body_plain,
                    !.messages[k].body_markdown = body_markdown]
    ELSE db

\* INSERT INTO attachments, idx = position in the list; the parent messages
\* row must exist when foreign keys are enforced.
InsertAttachments(db, k, atts) ==
    IF atts = << >> THEN Ok(db)
    ELSE IF foreign_keys /\ ~Exists(db, k) THEN Err(db)
    ELSE Ok([db EXCEPT !.attachments[k] = atts])

\* Variant: no DELETE FROM attachments, and INSERT OR REPLACE on top of
\* the attachments stored before.
do_save_body_KeepsOld(db, A, h, body_markdown, body_plain, atts) ==
    LET k == << A, h >>
        u == UpdateBody(db, k, body_markdown, body_plain)
    IN  Ok([u EXCEPT !.attachments[k] = atts \o SubSeq(@, Len(atts) + 1, Len(@))])

do_save_body(db, A, h, body_markdown, body_plain, atts) ==
    LET k == << A, h >>
        r == InsertAttachments(
                 DeleteAttachments(UpdateBody(db, k, body_markdown, body_plain), {k}),
                 k, atts)
    IN  IF r.ok THEN r ELSE Err(db)

(***************************************************************************)
(* queries.rs dual-truth flag operations                                   *)
(***************************************************************************)
\* Variant: the optimistic write also overwrites flags_server.
do_update_flags_ServerToo(db, A, h, flags_local, pending_op) ==
    LET k == << A, h >>
        f == flags_from_u8(flags_local)
    IN  IF Exists(db, k)
        THEN Ok([db EXCEPT !.messages[k].flags_local  = flags_local,
                           !.messages[k].flags_server = flags_local,
                           !.messages[k].pending_op   = pending_op,
                           !.messages[k].is_read      = f[1],
                           !.messages[k].is_starred   = f[2]])
        ELSE Ok(db)

\* Variant: an upsert, which stores a row for a message the cache lacks.
do_update_flags_Upsert(db, A, h, flags_local, pending_op) ==
    LET k == << A, h >>
        f == flags_from_u8(flags_local)
    IN  Ok([db EXCEPT !.messages[k] =
                [(IF Exists(db, k) THEN @ ELSE FreshRow(1, MessageSummary(h, f[1], f[2])))
                    EXCEPT !.flags_local = flags_local,
                           !.pending_op  = pending_op,
                           !.is_read     = f[1],
                           !.is_starred  = f[2]]])

do_update_flags(db, A, h, flags_local, pending_op) ==
    LET k == << A, h >>
        f == flags_from_u8(flags_local)
    IN  IF Exists(db, k)
        THEN Ok([db EXCEPT !.messages[k].flags_local = flags_local,
                           !.messages[k].pending_op  = pending_op,
                           !.messages[k].is_read     = f[1],
                           !.messages[k].is_starred  = f[2]])
        ELSE Ok(db)

\* Variant: the confirmation writes flags_server and leaves flags_local.
do_clear_pending_op_KeepLocal(db, A, h, flags_server) ==
    LET k == << A, h >>
        f == flags_from_u8(flags_server)
    IN  IF Exists(db, k)
        THEN Ok([db EXCEPT !.messages[k].flags_server = flags_server,
                           !.messages[k].pending_op   = NULL,
                           !.messages[k].is_read      = f[1],
                           !.messages[k].is_starred   = f[2]])
        ELSE Ok(db)

do_clear_pending_op(db, A, h, flags_server) ==
    LET k == << A, h >>
        f == flags_from_u8(flags_server)
    IN  IF Exists(db, k)
        THEN Ok([db EXCEPT !.messages[k].flags_server = flags_server,
                           !.messages[k].flags_local  = flags_server,
                           !.messages[k].pending_op   = NULL,
                           !.messages[k].is_read      = f[1],
                           !.messages[k].is_starred   = f[2]])
        ELSE Ok(db)

\* Variant: the revert copies the optimistic flags to flags_server.
do_revert_pending_op_KeepLocal(db, A, h) ==
    LET k == << A, h >>
    IN  IF Exists(db, k)
        THEN Ok([db EXCEPT !.messages[k].flags_server = db.messages[k].flags_local,
                           !.messages[k].pending_op   = NULL])
        ELSE Ok(db)

\* Variant: the revert restores flags_local and leaves the legacy columns.
do_revert_pending_op_NoMirror(db, A, h) ==
    LET k == << A, h >>
    IN  IF Exists(db, k)
        THEN Ok([db EXCEPT !.messages[k].flags_local = db.messages[k].flags_server,
                           !.messages[k].pending_op  = NULL])
        ELSE Ok(db)

do_revert_pending_op(db, A, h) ==
    LET k == << A, h >>
    IN  IF Exists(db, k)
        THEN Ok([db EXCEPT !.messages[k].flags_local = db.messages[k].flags_server,
                           !.messages[k].pending_op  = NULL,
                           !.messages[k].is_read     =
                               (db.messages[k].flags_server % 2) # 0,
                           !.messages[k].is_starred  =
                               ((db.messages[k].flags_server \div 2) % 2) # 0])
        ELSE Ok(db)

(***************************************************************************)
(* queries.rs do_remove_message / do_remove_account                        *)
(***************************************************************************)
\* The statement of do_remove_message that the database fails (disk full,
\* I/O error, database locked): none, the DELETE FROM attachments or the
\* DELETE FROM messages.
NoFault == 0

RemoveFaults == {NoFault, 1, 2}

\* Two conn.execute calls outside any transaction: each DELETE is committed
\* when it returns, and `?' returns at the first one that fails.
do_remove_message(db, A, h, fault) ==
    IF fault = 1 THEN Err(db)
    ELSE IF fault = 2 THEN Err(DeleteAttachments(db, {<< A, h >>}))
    ELSE Ok(DeleteMessages(DeleteAttachments(db, {<< A, h >>}), {<< A, h >>}))

do_remove_account(db, A) ==
    LET d == DeleteMessages(DeleteAttachments(db, AccountKeys(A)),
                            { k \in AccountKeys(A) : Exists(db, k) })
    IN  Ok([d EXCEPT !.folders[A] = {}])

(***************************************************************************)
(* The store when the worker starts (handle.rs CacheHandle::open): a fresh *)
(* cache.db, or one written by earlier runs.  PersistedStore is a cache.db *)
(* created before the flag columns and account_id existed: its             *)
(* LegacyAccount rows got flags_server = flags_local = 0 from              *)
(* run_migrations whatever their is_read column says.  Account "a" was     *)
(* synced afterwards, its message 41 got a body and was starred, and the   *)
(* program stopped before the star was resolved.                           *)
(***************************************************************************)
EmptyStore ==
    [folders     |-> [A \in Accounts |-> {}],
     messages    |-> [k \in Keys |-> NoRow],
     attachments |-> [k \in Keys |-> << >>]]

LegacyRow(mb, is_read, body) ==
    [mailbox_hash  |-> mb,
     is_read       |-> is_read,
     is_starred    |-> FALSE,
     flags_server  |-> 0,
     flags_local   |-> 0,
     pending_op    |-> NULL,
     body_rendered |-> body,
     body_markdown |-> NULL]

StarredRow ==
    [mailbox_hash  |-> 1,
     is_read       |-> FALSE,
     is_starred    |-> TRUE,
     flags_server  |-> 0,
     flags_local   |-> 2,
     pending_op    |-> "star",
     body_rendered |-> "plain",
     body_markdown |-> "md"]

PersistedStore ==
    [folders     |-> [A \in Accounts |-> {Folder("INBOX", 1), Folder("Work", 2)}],
     messages    |-> [k \in Keys |->
                        IF k = << LegacyAccount, 41 >> THEN LegacyRow(1, TRUE, "legacy body")
                        ELSE IF k = << LegacyAccount, 42 >> THEN LegacyRow(1, FALSE, NULL)
                        ELSE IF k = << "a", 41 >> THEN StarredRow
                        ELSE FreshRow(1, MessageSummary(42, FALSE, FALSE))],
     attachments |-> [k \in Keys |-> IF k = << "a", 41 >> THEN << "a.txt" >> ELSE << >>]]

\* No command executed, or its reply already received.
NoCmd ==
    [op |-> "none", account_id |-> NULL, mailbox_hash |-> 0, envelope_hash |-> 0,
     arg |-> NULL, arg2 |-> NULL, before |-> NULL, ok |-> TRUE, result |-> NULL]

Cmd(op, A, mb, h, arg, arg2, ok, result) ==
    [op |-> op, account_id |-> A, mailbox_hash |-> mb, envelope_hash |-> h,
     arg |-> arg, arg2 |-> arg2, before |-> DB, ok |-> ok, result |-> result]

\* tasks that hold a clone of the CacheHandle
Clients == {1, 2}

\* no flag action of the task is in flight
NoAction == [envelope_hash |-> 0, flags_local |-> 0, applied |-> FALSE]

\* the outcome of a call: Ok(result) or Err(err)
Outcome(ok, err, result) == [ok |-> ok, err |-> err, result |-> result]

NoOutcome == Outcome(TRUE, "", NULL)

\* A task between two calls.  chan is the oneshot channel of the call in
\* progress: "none", "pending" (the Sender is alive and has sent nothing),
\* "sent" (value holds the reply) or "closed" (the Sender was dropped).
ReadyTask ==
    [pc |-> "ready", chan |-> "none", value |-> NoOutcome, outcome |-> NoOutcome,
     calls |-> 0, answered |-> FALSE, action |-> NoAction]

\* no command
NoCall ==
    [id |-> 0, client |-> 0, op |-> "none", account_id |-> NULL, mailbox_hash |-> 0,
     envelope_hash |-> 0, arg |-> NULL, arg2 |-> NULL]

\* no function applied
NoEval == [fn |-> "none", input |-> NULL, result |-> NULL]

(***************************************************************************)
(* schema.rs: the FTS index message_fts, external content keyed to the     *)
(* rowid of messages.  The key of a messages row stands for its rowid; of  *)
(* the indexed columns the rows of this module carry body_rendered.        *)
(***************************************************************************)
\* the index after 'rebuild', which run_migrations issues at every open: one
\* row per messages row
IndexRows(msgs) ==
    { [rowid |-> k, body_rendered |-> msgs[k].body_rendered] :
        k \in { x \in Keys : msgs[x] # NoRow } }

\* Variant: no AFTER DELETE trigger, and AFTER UPDATE only inserts.
Triggers_InsertOnly(index, old, new) ==
    index \cup IndexRows([k \in Keys |-> IF old[k] # new[k] THEN new[k] ELSE NoRow])

\* messages_fts_ai, messages_fts_ad, messages_fts_au fire for each row that
\* the statements of a command insert, delete or update, inside the
\* command's transaction: 'delete' takes from the index the row with the
\* old values, the INSERT adds the row with the new values.  old and new
\* are the messages table before and after the command.
Triggers(index, old, new) ==
    LET deleted == IndexRows([k \in Keys |-> IF old[k] # new[k] THEN old[k] ELSE NoRow])
        inserted == IndexRows([k \in Keys |-> IF old[k] # new[k] THEN new[k] ELSE NoRow])
    IN  (index \ deleted) \cup inserted

InitHandle ==
    /\ queue = << >>
    /\ current = NoCall
    /\ worker = "running"
    /\ task = [c \in Clients |-> ReadyTask]
    /\ sent = << >>
    /\ log = << >>

Init ==
    /\ InitHandle
    /\ eval = NoEval
    /\ foreign_keys \in BOOLEAN
    /\ \E s \in {EmptyStore, PersistedStore} :
          /\ folders = s.folders
          /\ messages = s.messages
          /\ message_fts = IndexRows(s.messages)
          /\ attachments = s.attachments
    /\ last = NoCmd
    /\ ncmds = 0

(***************************************************************************)
(* handle.rs run_loop: the worker takes one command, executes it on the    *)
(* connection and sends the reply; the caller then receives the reply.     *)
(***************************************************************************)
Idle == last.op = "none" /\ ncmds < MaxCmds

Commit(db) ==
    /\ folders' = db.folders
    /\ messages' = db.messages
    /\ message_fts' = Triggers(message_fts, messages, messages')
    /\ attachments' = db.attachments
    /\ ncmds' = ncmds + 1
    /\ UNCHANGED << foreign_keys, eval, handle_vars >>

SaveFolders ==
    /\ Idle
    /\ \E A \in ConfiguredAccounts, F \in FolderLists :
          \E r \in {do_save_folders(DB, A, F)} :
              /\ Commit(r.db)
              /\ last' = Cmd("save_folders", A, 0, 0, F, NULL, r.ok, NULL)

LoadFolders ==
    /\ Idle
    /\ \E A \in ConfiguredAccounts :
          /\ Commit(DB)
          /\ last' = Cmd("load_folders", A, 0, 0, NULL, NULL, TRUE, do_load_folders(DB, A))

SaveMessages ==
    /\ Idle
    /\ \E A \in ConfiguredAccounts, mb \in MailboxHashes, M \in EnvelopeLists :
          \E r \in {do_save_messages(DB, A, mb, M)} :
              /\ Commit(r.db)
              /\ last' = Cmd("save_messages", A, mb, 0, M, NULL, r.ok, NULL)

LoadMessages ==
    /\ Idle
    /\ \E A \in ConfiguredAccounts, mb \in MailboxHashes :
          /\ Commit(DB)
          /\ last' = Cmd("load_messages", A, mb, 0, NULL, NULL, TRUE,
                         do_load_messages(DB, A, mb))

LoadBody ==
    /\ Idle
    /\ \E A \in ConfiguredAccounts, h \in EnvelopeHashes :
          /\ Commit(DB)
          /\ last' = Cmd("load_body", A, 0, h, NULL, NULL, TRUE, do_load_body(DB, A, h))

SaveBody ==
    /\ Idle
    /\ \E A \in ConfiguredAccounts, h \in EnvelopeHashes, atts \in AttachmentLists,
          b \in Bodies :
          \E r \in {do_save_body(DB, A, h, b[1], b[2], atts)} :
              /\ Commit(r.db)
              /\ last' = Cmd("save_body", A, 0, h, atts, b, r.ok, NULL)

UpdateFlags ==
    /\ Idle
    /\ \E A \in ConfiguredAccounts, h \in EnvelopeHashes, f \in FlagBytes, op \in Verbs :
          \E r \in {do_update_flags(DB, A, h, f, op)} :
              /\ Commit(r.db)
              /\ last' = Cmd("update_flags", A, 0, h, f, op, r.ok, NULL)

ClearPendingOp ==
    /\ Idle
    /\ \E A \in ConfiguredAccounts, h \in EnvelopeHashes, f \in FlagBytes :
          \E r \in {do_clear_pending_op(DB, A, h, f)} :
              /\ Commit(r.db)
              /\ last' = Cmd("clear_pending_op", A, 0, h, f, NULL, r.ok, NULL)

RevertPendingOp ==
    /\ Idle
    /\ \E A \in ConfiguredAccounts, h \in EnvelopeHashes :
          \E r \in {do_revert_pending_op(DB, A, h)} :
              /\ Commit(r.db)
              /\ last' = Cmd("revert_pending_op", A, 0, h, NULL, NULL, r.ok, NULL)

RemoveMessage ==
    /\ Idle
    /\ \E A \in ConfiguredAccounts, h \in EnvelopeHashes, fault \in RemoveFaults :
          \E r \in {do_remove_message(DB, A, h, fault)} :
              /\ Commit(r.db)
              /\ last' = Cmd("remove_message", A, 0, h, fault, NULL, r.ok, NULL)

RemoveAccount ==
    /\ Idle
    /\ \E A \in ConfiguredAccounts :
          \E r \in {do_remove_account(DB, A)} :
              /\ Commit(r.db)
              /\ last' = Cmd("remove_account", A, 0, 0, NULL, NULL, r.ok, NULL)

\* The caller's rx.await returns the reply; the worker is back in
\* blocking_recv.
AwaitReply ==
    /\ last.op # "none"
    /\ last' = NoCmd
    /\ UNCHANGED << folders, messages, message_fts, attachments, foreign_keys, eval, ncmds, handle_vars >>

Next ==
    \/ SaveFolders
    \/ LoadFolders
    \/ SaveMessages
    \/ LoadMessages
    \/ LoadBody
    \/ SaveBody
    \/ UpdateFlags
    \/ ClearPendingOp
    \/ RevertPendingOp
    \/ RemoveMessage
    \/ RemoveAccount
    \/ AwaitReply

Spec == Init /\ [][Next]_vars

(***************************************************************************)
(* handle.rs with its callers: tasks that each hold a clone of the         *)
(* CacheHandle submit commands concurrently on the unbounded channel and   *)
(* await the oneshot reply; run_loop takes the commands one by one.        *)
(***************************************************************************)
Unavailable == Outcome(FALSE, "Cache unavailable", NULL)

\* the reply of a command that writes
Written(r) ==
    [db |-> r.db, reply |-> Outcome(r.ok, IF r.ok THEN "" ELSE "Cache error", NULL)]

\* the reply of a command that reads
Loaded(db, v) == [db |-> db, reply |-> Outcome(TRUE, "", v)]

\* run_loop: the match on the command
Exec(db, c) ==
    IF c.op = "save_folders" THEN Written(do_save_folders(db, c.account_id, c.arg))
    ELSE IF c.op = "load_folders" THEN Loaded(db, do_load_folders(db, c.account_id))
    ELSE IF c.op = "save_messages"
         THEN Written(do_save_messages(db, c.account_id, c.mailbox_hash, c.arg))
    ELSE IF c.op = "load_messages"
         THEN Loaded(db, do_load_messages(db, c.account_id, c.mailbox_hash))
    ELSE IF c.op = "load_body"
         THEN Loaded(db, do_load_body(db, c.account_id, c.envelope_hash))
    ELSE IF c.op = "save_body"
         THEN Written(do_save_body(db, c.account_id, c.envelope_hash,
                                   c.arg2[1], c.arg2[2], c.arg))
    ELSE IF c.op = "update_flags"
         THEN Written(do_update_flags(db, c.account_id, c.envelope_hash, c.arg, c.arg2))
    ELSE IF c.op = "clear_pending_op"
         THEN Written(do_clear_pending_op(db, c.account_id, c.envelope_hash, c.arg))
    ELSE IF c.op = "revert_pending_op"
         THEN Written(do_revert_pending_op(db, c.account_id, c.envelope_hash))
    ELSE IF c.op = "remove_message"
         THEN Written(do_remove_message(db, c.account_id, c.envelope_hash, NoFault))
    ELSE Written(do_remove_account(db, c.account_id))

\* id: the position of the command among those sent
Call(c, op, mb, h, arg, arg2) ==
    [id |-> Len(sent) + 1, client |-> c, op |-> op, account_id |-> "a", mailbox_hash |-> mb,
     envelope_hash |-> h, arg |-> arg, arg2 |-> arg2]

\* the message the flag actions are about, and its mailbox
FlagTargets == {41}

RefreshedMailboxes == {1}

\* envelope lists of the refreshes that run next to the flag actions
RefreshLists ==
    { M \in EnvelopeLists :
        Len(M) <= 1 /\ \A i \in 1 .. Len(M) : M[i].envelope_hash \in FlagTargets }

\* optimistic flag bytes of the flag actions: read, or starred
ActionFlags == {1, 2}

\* The calls a task may make next.  A flag action is an update_flags
\* followed, once it was applied, by its resolver: clear_pending_op with the
\* flags the action wrote, or revert_pending_op.  Refreshes and loads come
\* at any time.
Calls(c) ==
    LET a == task[c].action
    IN  { Call(c, "save_messages", mb, 0, M, NULL) :
              mb \in RefreshedMailboxes, M \in RefreshLists }
        \cup { Call(c, "load_messages", mb, 0, NULL, NULL) : mb \in RefreshedMailboxes }
        \cup (IF a = NoAction
              THEN { Call(c, "update_flags", 0, h, f, "star") :
                         h \in FlagTargets, f \in ActionFlags }
              ELSE IF a.applied
              THEN { Call(c, "clear_pending_op", 0, a.envelope_hash, a.flags_local, NULL),
                     Call(c, "revert_pending_op", 0, a.envelope_hash, NULL, NULL) }
              ELSE {})

\* the flag action of the task after it submitted cmd
Started(a, cmd) ==
    IF cmd.op = "update_flags"
    THEN [envelope_hash |-> cmd.envelope_hash, flags_local |-> cmd.arg, applied |-> FALSE]
    ELSE a

\* the flag action of the task after the worker executed cmd on db
Applied(a, cmd, db) ==
    IF cmd.op = "update_flags"
    THEN IF Exists(db, << cmd.account_id, cmd.envelope_hash >>)
         THEN [a EXCEPT !.applied = TRUE] ELSE NoAction
    ELSE IF cmd.op \in {"clear_pending_op", "revert_pending_op"} THEN NoAction
    ELSE a

\* CacheHandle::<method>: tx.send(cmd) fails when the receiver is gone,
\* else the command is on the queue and the task awaits the reply.
Submit(c) ==
    /\ task[c].pc = "ready"
    /\ ncmds < MaxCmds
    /\ ncmds' = ncmds + 1
    /\ \E cmd \in Calls(c) :
          IF worker = "running"
          THEN /\ queue' = Append(queue, cmd)
               /\ sent' = Append(sent, cmd)
               /\ task' = [task EXCEPT ![c].pc = "waiting",
                                       ![c].chan = "pending",
                                       ![c].calls = @ + 1,
                                       ![c].answered = FALSE,
                                       ![c].action = Started(@, cmd)]
          ELSE /\ task' = [task EXCEPT ![c].outcome = Unavailable,
                                       ![c].calls = @ + 1,
                                       ![c].answered = FALSE]
               /\ UNCHANGED << queue, sent >>
    /\ UNCHANGED << folders, messages, message_fts, attachments, foreign_keys, eval, last,
                    current, worker, log >>

\* rx.await: the reply, or "Cache unavailable" when the Sender was dropped
Await(c) ==
    /\ task[c].pc = "waiting"
    /\ task[c].chan \in {"sent", "closed"}
    /\ task' = [task EXCEPT ![c].pc = "ready",
                            ![c].chan = "none",
                            ![c].outcome = IF task[c].chan = "sent"
                                           THEN task[c].value ELSE Unavailable]
    /\ UNCHANGED << folders, messages, message_fts, attachments, foreign_keys, eval, last, ncmds,
                    queue, current, worker, sent, log >>

\* The task is dropped with its handle, between two calls or while it
\* awaits a reply; a command it has sent stays on the queue.
Drop(c) ==
    /\ task[c].pc \in {"ready", "waiting"}
    /\ task' = [task EXCEPT ![c].pc = "dropped",
                            ![c].chan = "none",
                            ![c].action = NoAction]
    /\ UNCHANGED << folders, messages, message_fts, attachments, foreign_keys, eval, last, ncmds,
                    queue, current, worker, sent, log >>

\* Variant: the worker takes the newest command of the queue.
Recv_Newest ==
    /\ worker = "running"
    /\ current = NoCall
    /\ queue # << >>
    /\ current' = queue[Len(queue)]
    /\ queue' = SubSeq(queue, 1, Len(queue) - 1)
    /\ UNCHANGED << folders, messages, message_fts, attachments, foreign_keys, eval, last, ncmds,
                    worker, task, sent, log >>

\* run_loop: rx.blocking_recv() returns the oldest command
Recv ==
    /\ worker = "running"
    /\ current = NoCall
    /\ queue # << >>
    /\ current' = Head(queue)
    /\ queue' = Tail(queue)
    /\ UNCHANGED << folders, messages, message_fts, attachments, foreign_keys, eval, last, ncmds,
                    worker, task, sent, log >>

\* run_loop: reply.send(queries::do_...(&conn, ...)); a reply whose receiver
\* was dropped is discarded.
Execute ==
    /\ worker = "running"
    /\ current # NoCall
    /\ \E r \in {Exec(DB, current)}, c \in {current.client} :
           /\ folders' = r.db.folders
           /\ messages' = r.db.messages
           /\ message_fts' = Triggers(message_fts, messages, messages')
           /\ attachments' = r.db.attachments
           /\ log' = Append(log, [cmd |-> current, reply |-> r.reply])
           /\ task' = IF task[c].pc = "waiting"
                      THEN [task EXCEPT ![c].chan = "sent",
                                        ![c].value = r.reply,
                                        ![c].answered = TRUE,
                                        ![c].action = Applied(@, current, DB)]
                      ELSE task
    /\ current' = NoCall
    /\ UNCHANGED << foreign_keys, eval, last, ncmds, queue, worker, sent >>

\* Variant: the worker returns as soon as no handle is left.
Exit_LeavesQueue ==
    /\ worker = "running"
    /\ current = NoCall
    /\ \A c \in Clients : task[c].pc = "dropped"
    /\ worker' = "exited"
    /\ queue' = << >>
    /\ UNCHANGED << folders, messages, message_fts, attachments, foreign_keys, eval, last, ncmds,
                    current, task, sent, log >>

\* run_loop: blocking_recv() returns None when every Sender is dropped and
\* the queue is empty; the loop ends.
Exit ==
    /\ worker = "running"
    /\ current = NoCall
    /\ queue = << >>
    /\ \A c \in Clients : task[c].pc = "dropped"
    /\ worker' = "exited"
    /\ UNCHANGED << folders, messages, message_fts, attachments, foreign_keys, eval, last, ncmds,
                    queue, current, task, sent, log >>

\* Variant: the queued commands and their reply Senders outlive the worker.
Panic_KeepsSenders ==
    /\ worker = "running"
    /\ current # NoCall
    /\ worker' = "panicked"
    /\ current' = NoCall
    /\ UNCHANGED << folders, messages, message_fts, attachments, foreign_keys, eval, last, ncmds,
                    queue, task, sent, log >>

\* The worker thread panics while it executes a command: the unwinding
\* drops the command with its reply Sender, the connection (an open
\* transaction is rolled back) and the Receiver, and with the Receiver every
\* queued command and its reply Sender.
Panic ==
    /\ worker = "running"
    /\ current # NoCall
    /\ worker' = "panicked"
    /\ current' = NoCall
    /\ queue' = << >>
    /\ task' = [c \in Clients |->
                   IF task[c].chan = "pending"
                   THEN [task[c] EXCEPT !.chan = "closed"] ELSE task[c]]
    /\ UNCHANGED << folders, messages, message_fts, attachments, foreign_keys, eval, last, ncmds,
                    sent, log >>

InitH ==
    /\ InitHandle
    /\ eval = NoEval
    /\ foreign_keys \in BOOLEAN
    /\ folders = PersistedStore.folders
    /\ messages = PersistedStore.messages
    /\ message_fts = IndexRows(PersistedStore.messages)
    /\ attachments = PersistedStore.attachments
    /\ last = NoCmd
    /\ ncmds = 0

NextH ==
    \/ \E c \in Clients : Submit(c)
    \/ \E c \in Clients : Await(c)
    \/ \E c \in Clients : Drop(c)
    \/ Recv
    \/ Execute
    \/ Exit
    \/ Panic

SpecHandle == InitH /\ [][NextH]_vars

\* The worker is a thread of its own: it is scheduled whenever it can take,
\* execute or stop.
FairSpecHandle ==
    SpecHandle /\ WF_vars(Recv) /\ WF_vars(Execute) /\ WF_vars(Exit)

(***************************************************************************)
(* Specifications of single functions: the input is drawn at the start,    *)
(* one step applies the function and records the result in eval.  The      *)
(* store, the worker and the channel are not involved.                     *)
(***************************************************************************)
NoStore ==
    /\ InitHandle
    /\ foreign_keys = TRUE
    /\ folders = EmptyStore.folders
    /\ messages = EmptyStore.messages
    /\ message_fts = {}
    /\ attachments = EmptyStore.attachments
    /\ last = NoCmd
    /\ ncmds = 0

Input(x) == [fn |-> "none", input |-> x, result |-> NULL]

Apply(fn, result) ==
    /\ eval.fn = "none"
    /\ eval' = [fn |-> fn, input |-> eval.input, result |-> result]
    /\ UNCHANGED << folders, messages, message_fts, attachments, foreign_keys, last, ncmds,
                    handle_vars >>

Max(S) == CHOOSE x \in S : \A y \in S : y <= x

(***************************************************************************)
(* queries.rs do_load_messages: ORDER BY and LIMIT / OFFSET.  The rows of  *)
(* one mailbox of one account carry the columns of the ORDER BY clause.    *)
(***************************************************************************)
\* thread_id IS NULL (MessageSummary.thread_id = None)
NoThread == -1

\* the messages rows of the mailbox: at most one per envelope_hash; 1 is
\* an envelope_hash and also a thread_id
MailboxRows ==
    LET OrderHashes == {1, 2, 3}
        Cols == [thread_id : {NoThread, 1, 7}, timestamp : {10, 20, 30}]
        Pick == [OrderHashes -> Cols \cup {NoRow}]
    IN  { { [envelope_hash |-> h,
             thread_id     |-> p[h].thread_id,
             timestamp     |-> p[h].timestamp] :
               h \in { x \in OrderHashes : p[x] # NoRow } } : p \in Pick }

\* COALESCE(thread_id, envelope_hash)
ThreadKey(r) == IF r.thread_id = NoThread THEN r.envelope_hash ELSE r.thread_id

\* MAX(timestamp) OVER (PARTITION BY COALESCE(thread_id, envelope_hash))
ThreadNewest(rows, r) ==
    Max({ q.timestamp : q \in { x \in rows : ThreadKey(x) = ThreadKey(r) } })

\* Variant: ORDER BY timestamp DESC.
OrderedBefore_NewestFirst(rows, a, b) == a.timestamp >= b.timestamp

\* a may precede b under ORDER BY <window max> DESC, <thread key>,
\* timestamp ASC
OrderedBefore(rows, a, b) ==
    LET na == ThreadNewest(rows, a)
        nb == ThreadNewest(rows, b)
    IN  \/ na > nb
        \/ /\ na = nb
           /\ \/ ThreadKey(a) < ThreadKey(b)
              \/ ThreadKey(a) = ThreadKey(b) /\ a.timestamp <= b.timestamp

\* The sequences the ORDER BY can produce: rows whose sort keys are all
\* equal come in an order SQLite does not define.
ThreadOrders(rows) ==
    LET n == Cardinality(rows)
    IN  { s \in [1 .. n -> rows] :
            /\ \A i, j \in 1 .. n : i # j => s[i] # s[j]
            /\ \A i, j \in 1 .. n : i < j => OrderedBefore(rows, s[i], s[j]) }

\* LIMIT ?2 OFFSET ?3
Page(s, limit, offset) ==
    SubSeq(s, offset + 1, IF offset + limit < Len(s) THEN offset + limit ELSE Len(s))

InitOrder ==
    /\ NoStore
    /\ \E rows \in MailboxRows, limit \in {1, 2, 3}, offset \in {0, 1} :
          eval = Input([rows |-> rows, limit |-> limit, offset |-> offset])

LoadPage ==
    \E s \in ThreadOrders(eval.input.rows) :
        Apply("do_load_messages", Page(s, eval.input.limit, eval.input.offset))

SpecOrder == InitOrder /\ [][LoadPage]_vars

(***************************************************************************)
(* queries.rs do_search: the rewriting of the query.  A query is a         *)
(* sequence of characters.                                                 *)
(***************************************************************************)
\* longest query
MaxQueryLen == 5

\* the queries: of an ASCII letter, the underscore, the star, a whitespace
\* character, the double quote and a letter outside ASCII
Queries == SeqsUpTo({"a", "_", "*", " ", "\"", "U+00E9"}, MaxQueryLen)

\* char::is_whitespace
IsWhitespace(c) == c = " "

\* c.is_ascii_alphanumeric() || c == '_'
IsPlainChar(c) == c \in {"a", "_"}

\* bytes of the character in UTF-8
Utf8Len(c) == IF c = "U+00E9" THEN 2 ELSE 1

\* str::len: the length in bytes
RECURSIVE ByteLen(_)
ByteLen(t) == IF t = << >> THEN 0 ELSE Utf8Len(Head(t)) + ByteLen(Tail(t))

RECURSIVE TrimStart(_)
TrimStart(q) ==
    IF q # << >> /\ IsWhitespace(Head(q)) THEN TrimStart(Tail(q)) ELSE q

RECURSIVE TrimEnd(_)
TrimEnd(q) ==
    IF q # << >> /\ IsWhitespace(q[Len(q)])
    THEN TrimEnd(SubSeq(q, 1, Len(q) - 1)) ELSE q

\* str::trim
Trim(q) == TrimEnd(TrimStart(q))

\* str::split_whitespace: the maximal runs of characters that are not
\* whitespace; tok is the run being read
RECURSIVE SplitFrom(_, _)
SplitFrom(q, tok) ==
    IF q = << >> THEN (IF tok = << >> THEN << >> ELSE << tok >>)
    ELSE IF IsWhitespace(Head(q))
    THEN (IF tok = << >> THEN << >> ELSE << tok >>) \o SplitFrom(Tail(q), << >>)
    ELSE SplitFrom(Tail(q), Append(tok, Head(q)))

split_whitespace(q) == SplitFrom(q, << >>)

\* query.contains('"')
ContainsQuote(q) == \E i \in 1 .. Len(q) : q[i] = "\""

\* Variant: the star is appended to every plain token, whatever its length.
RewriteToken_AnyLength(token) ==
    LET is_plain == \A i \in 1 .. Len(token) : IsPlainChar(token[i])
    IN  IF ~is_plain \/ (token # << >> /\ token[Len(token)] = "*")
        THEN token
        ELSE Append(token, "*")

\* the closure mapped over the tokens
RewriteToken(token) ==
    LET is_plain == \A i \in 1 .. Len(token) : IsPlainChar(token[i])
    IN  IF ~is_plain \/ ByteLen(token) < 3 \/ (token # << >> /\ token[Len(token)] = "*")
        THEN token
        ELSE Append(token, "*")

\* .collect::<Vec<_>>().join(" ")
RECURSIVE Join(_)
Join(tokens) ==
    IF tokens = << >> THEN << >>
    ELSE IF Len(tokens) = 1 THEN tokens[1]
    ELSE tokens[1] \o << " " >> \o Join(Tail(tokens))

\* matched: whether the MATCH statement is executed; fts_query: its ?1
do_search(q) ==
    LET query == Trim(q)
    IN  IF query = << >> THEN [matched |-> FALSE, fts_query |-> << >>]
        ELSE IF ContainsQuote(query) THEN [matched |-> TRUE, fts_query |-> query]
        ELSE [matched |-> TRUE,
              fts_query |-> Join([i \in 1 .. Len(split_whitespace(query)) |->
                                     RewriteToken(split_whitespace(query)[i])])]

InitSearch ==
    /\ NoStore
    /\ \E q \in Queries : eval = Input(q)

Search == Apply("do_search", do_search(eval.input))

SpecSearch == InitSearch /\ [][Search]_vars

(***************************************************************************)
(* config.rs Config::resolve_all_accounts                                  *)
(***************************************************************************)
\* ids of the accounts of config.json
FileAccountIds == {"u1", "u2"}

\* The environment: whether the NEVERLIGHT_MAIL_* variables are set, the
\* config file, and the accounts whose password the keyring returns.
\* MultiAccountFileConfig::load finds no file, a file that does not parse,
\* or the accounts: FileAccountConfig records, each id once, each with its
\* PasswordBackend.
Environments ==
    LET FileAccountConfigs ==
            [id : FileAccountIds, password : {"plaintext", "keyring"}]
        FileConfigs ==
            { c \in SeqsUpTo(FileAccountConfigs, Cardinality(FileAccountIds)) :
                \A i, j \in 1 .. Len(c) : i # j => c[i].id # c[j].id }
        ConfigFiles ==
            { [status |-> "none", accounts |-> << >>],
              [status |-> "invalid", accounts |-> << >>] }
                \cup { [status |-> "loaded", accounts |-> c] : c \in FileConfigs }
    IN  [from_env : BOOLEAN, file : ConfigFiles, keyring : SUBSET FileAccountIds]

\* resolve_password
resolve_password(fac, keyring) ==
    IF fac.password = "plaintext" THEN [ok |-> TRUE]
    ELSE [ok |-> fac.id \in keyring]

\* the accounts pushed by the loop, in the order of the file
RECURSIVE Resolved(_, _)
Resolved(accounts, keyring) ==
    IF accounts = << >> THEN << >>
    ELSE IF resolve_password(Head(accounts), keyring).ok
    THEN << Head(accounts).id >> \o Resolved(Tail(accounts), keyring)
    ELSE Resolved(Tail(accounts), keyring)

FullSetup == [ok |-> FALSE, request |-> "FullSetup", account_id |-> NULL, accounts |-> << >>]

PasswordOnly(id) ==
    [ok |-> FALSE, request |-> "PasswordOnly", account_id |-> id, accounts |-> << >>]

Accepted(ids) == [ok |-> TRUE, request |-> NULL, account_id |-> NULL, accounts |-> ids]

resolve_all_accounts(e) ==
    IF e.from_env THEN Accepted(<< "env-account" >>)
    ELSE IF e.file.status # "loaded" THEN FullSetup
    ELSE LET accounts == Resolved(e.file.accounts, e.keyring)
         IN  IF accounts = << >> /\ e.file.accounts # << >>
             THEN PasswordOnly(e.file.accounts[1].id)
             ELSE IF accounts = << >> THEN FullSetup
             ELSE Accepted(accounts)

InitResolve ==
    /\ NoStore
    /\ \E e \in Environments : eval = Input(e)

ResolveAllAccounts == Apply("resolve_all_accounts", resolve_all_accounts(eval.input))

SpecResolve == InitResolve /\ [][ResolveAllAccounts]_vars

(***************************************************************************)
(* schema.rs run_migrations.  A database file is its schema version        *)
(* ("legacy": the tables without account_id and with keys that are not     *)
(* account-scoped; "altered": account_id added by the ALTERs, keys still    *)
(* not scoped; "scoped": the tables of SCHEMA), its indexes, its rows, and  *)
(* the FTS table with its triggers.  A messages row carries its rowid,     *)
(* which keys the index.  account_id = NULL stands for a table without the *)
(* column.                                                                 *)
(***************************************************************************)
\* runs of the migrator on one file
MaxRuns == 3

\* the rows of a table in ascending order of rowid, the order of a scan
RECURSIVE ByRowid(_)
ByRowid(S) ==
    IF S = {} THEN << >>
    ELSE LET x == CHOOSE y \in S : \A z \in S : y.rowid <= z.rowid
         IN  << x >> \o ByRowid(S \ {x})

\* INSERT INTO message_fts(message_fts) VALUES('rebuild'): the index holds
\* one row per messages row
Rebuilt(msgs) ==
    LET rows == ByRowid(msgs)
    IN  [i \in 1 .. Len(rows) |-> [rowid |-> rows[i].rowid,
                                   body_rendered |-> rows[i].body_rendered]]

\* The files the migrator is run on.  Before account-scoped keys: at most
\* one folders row per path and per mailbox_hash, at most one messages row
\* per envelope_hash, which is its rowid (INTEGER PRIMARY KEY), and no
\* foreign key declared, so that a message may name a mailbox_hash without
\* folders row and an attachment a message that is gone.  With the present
\* schema: keys per account and any rowids.  The FTS objects of a file: none
\* (a file older than the FTS schema), the table with its triggers and an
\* index in step with messages, or the table of an earlier schema holding
\* nothing usable.
Databases ==
    LET Hashes == {10, 11}
        Flds == { Folder("INBOX", 1), Folder("Work", 2) }
        FolderRow(A, f) ==
            [account_id |-> A, path |-> f.path, mailbox_hash |-> f.mailbox_hash]
        MessageRow(rowid, A, h, mb) ==
            [rowid |-> rowid, account_id |-> A, envelope_hash |-> h, mailbox_hash |-> mb,
             body_rendered |-> IF h = 10 THEN "body" ELSE NULL]
        AttachmentRow(A, h) == [account_id |-> A, envelope_hash |-> h, idx |-> 0]
        FtsStates(msgs) ==
            { [fts_table |-> FALSE, triggers |-> FALSE, message_fts |-> << >>],
              [fts_table |-> TRUE, triggers |-> TRUE, message_fts |-> Rebuilt(msgs)],
              [fts_table |-> TRUE, triggers |-> FALSE, message_fts |-> << >>] }
        Database(version, indexes, flds, msgs, atts, fts) ==
            [version |-> version, indexes |-> indexes, folders |-> flds,
             messages |-> msgs, attachments |-> atts, fts_table |-> fts.fts_table,
             triggers |-> fts.triggers, message_fts |-> fts.message_fts]
        UnscopedMessages(As) ==
            LET Opt == {NoRow} \cup [account_id : As, mailbox_hash : MailboxHashes]
            IN  { { MessageRow(h, p[h].account_id, h, p[h].mailbox_hash) :
                      h \in { x \in Hashes : p[x] # NoRow } } : p \in [Hashes -> Opt] }
        UnscopedFolders(As) ==
            LET Opt == {NoRow} \cup [account_id : As]
            IN  { { FolderRow(p[f].account_id, f) : f \in { x \in Flds : p[x] # NoRow } } :
                    p \in [Flds -> Opt] }
        Unscoped(version, As) ==
            UNION { { Database(version, {"idx_messages_mailbox"}, flds, msgs,
                               { AttachmentRow(NULL, h) : h \in hs }, fts) :
                        flds \in UnscopedFolders(As), hs \in SUBSET Hashes,
                        fts \in FtsStates(msgs) } :
                    msgs \in UnscopedMessages(As) }
        ScopedRowid(A, h) == (IF A = "a" THEN 4 ELSE 1) + (IF h = 10 THEN 2 ELSE 0)
        ScopedMessages ==
            LET Ks == {"", "a"} \X Hashes
                Opt == {NoRow} \cup [mailbox_hash : MailboxHashes]
            IN  { { MessageRow(ScopedRowid(k[1], k[2]), k[1], k[2], p[k].mailbox_hash) :
                      k \in { x \in Ks : p[x] # NoRow } } : p \in [Ks -> Opt] }
        Scoped ==
            UNION { { Database("scoped",
                               {"idx_messages_mailbox", "idx_messages_message_id",
                                "idx_folders_account", "idx_messages_account_mailbox"},
                               flds, msgs, { AttachmentRow("a", h) : h \in hs }, fts) :
                        flds \in SUBSET { FolderRow(A, f) : A \in {"", "a"}, f \in Flds },
                        hs \in SUBSET { m.envelope_hash :
                                          m \in { x \in msgs : x.account_id = "a" } },
                        fts \in FtsStates(msgs) } :
                    msgs \in ScopedMessages }
    IN  Unscoped("legacy", {NULL}) \cup Unscoped("altered", {"", "a"}) \cup Scoped

\* COALESCE(account_id, '')
Coalesce(A) == IF A = NULL THEN "" ELSE A

\* migrate_to_account_scoped_primary_keys: nothing to do on scoped tables;
\* else, in one transaction, drop the FTS objects, copy the rows to the v2
\* tables and swap the tables.  messages_v2 gives rowids in the order of
\* the scan; attachments_v2 takes account_id from attachments a LEFT JOIN
\* messages m ON m.envelope_hash = a.envelope_hash.  An INSERT that
\* violates a foreign key of the v2 tables (a messages_v2 row without its
\* folders_v2 row, an attachments_v2 row without its messages_v2 row)
\* fails the function: the transaction is rolled back, run_migrations logs
\* a warning and goes on.
migrate_to_account_scoped_primary_keys(d) ==
    IF d.version = "scoped" THEN d
    ELSE LET rows == ByRowid(d.messages)
             flds == { [f EXCEPT !.account_id = Coalesce(@)] : f \in d.folders }
             msgs == { [rows[i] EXCEPT !.rowid = i, !.account_id = Coalesce(@)] :
                         i \in 1 .. Len(rows) }
             atts == UNION {
                       LET ms == { m \in d.messages : m.envelope_hash = a.envelope_hash }
                       IN  IF ms = {} THEN { [a EXCEPT !.account_id = ""] }
                           ELSE { [a EXCEPT !.account_id = Coalesce(m.account_id)] :
                                    m \in ms } :
                       a \in d.attachments }
             violation ==
                 \/ \E m \in msgs :
                       ~\E f \in flds : /\ f.account_id = m.account_id
                                        /\ f.mailbox_hash = m.mailbox_hash
                 \/ \E a \in atts :
                       ~\E m \in msgs : /\ m.account_id = a.account_id
                                        /\ m.envelope_hash = a.envelope_hash
         IN  IF foreign_keys /\ violation THEN d
             ELSE [d EXCEPT !.version = "scoped",
                            !.indexes = {},
                            !.folders = flds,
                            !.messages = msgs,
                            !.attachments = atts,
                            !.fts_table = FALSE,
                            !.triggers = FALSE,
                            !.message_fts = << >>]

\* Variant: the FTS table is kept and every messages row is indexed again.
FtsObjects_Reindex(d) ==
    [d EXCEPT !.fts_table = TRUE,
              !.triggers = TRUE,
              !.message_fts = @ \o Rebuilt(d.messages)]

\* DROP the stale FTS objects, CREATE the table and the three triggers,
\* 'rebuild'
FtsObjects(d) ==
    [d EXCEPT !.fts_table = TRUE,
              !.triggers = TRUE,
              !.message_fts = Rebuilt(d.messages)]

\* The ALTER TABLE .. ADD COLUMN statements give the rows of a legacy
\* folders and messages table account_id = '' (the column default); on
\* the other files each fails with "duplicate column name" and is
\* ignored.  Then the move to account-scoped keys, CREATE INDEX IF NOT
\* EXISTS, and the FTS objects.
run_migrations(d) ==
    LET altered ==
            IF d.version # "legacy" THEN d
            ELSE [d EXCEPT !.version = "altered",
                           !.folders = { [f EXCEPT !.account_id = ""] : f \in @ },
                           !.messages = { [m EXCEPT !.account_id = ""] : m \in @ }]
        moved == migrate_to_account_scoped_primary_keys(altered)
        indexed ==
            [moved EXCEPT !.indexes = @ \cup {"idx_messages_message_id",
                                              "idx_folders_account",
                                              "idx_messages_account_mailbox"}]
    IN  FtsObjects(indexed)

InitMigrate ==
    /\ InitHandle
    /\ foreign_keys \in BOOLEAN
    /\ folders = EmptyStore.folders
    /\ messages = EmptyStore.messages
    /\ message_fts = {}
    /\ attachments = EmptyStore.attachments
    /\ last = NoCmd
    /\ ncmds = 0
    /\ \E d \in Databases : eval = [fn |-> "none", input |-> d, result |-> << >>]

\* one more run of the migrator on the file; result holds the file after
\* each run
RunMigrations ==
    /\ Len(eval.result) < MaxRuns
    /\ eval' = [fn |-> "run_migrations",
                input |-> eval.input,
                result |-> Append(eval.result,
                                  run_migrations(IF eval.result = << >> THEN eval.input
                                                 ELSE eval.result[Len(eval.result)]))]
    /\ UNCHANGED << folders, messages, message_fts, attachments, foreign_keys, last, ncmds,
                    handle_vars >>

SpecMigrate == InitMigrate /\ [][RunMigrations]_vars

(***************************************************************************)
(* imap.rs ImapSession::fetch_messages.  The adapter's fetch either fails  *)
(* to start or gives a stream of batch results, each an Err or a list of   *)
(* envelopes; an envelope carries its hash and its seen and flagged flags. *)
(***************************************************************************)
\* longest stream of batches
MaxBatches == 2

Streams ==
    LET Envelopes ==
            { [hash |-> h, is_seen |-> r, is_flagged |-> ~r] :
                h \in EnvelopeHashes, r \in BOOLEAN }
        Batches ==
            { [ok |-> FALSE, envelopes |-> << >>] }
                \cup { [ok |-> TRUE, envelopes |-> e] : e \in SeqsUpTo(Envelopes, 2) }
    IN  [started : BOOLEAN, batches : SeqsUpTo(Batches, MaxBatches)]

\* messages.push(MessageSummary { .. }) for each envelope of a batch
RECURSIVE PushEach(_, _, _)
PushEach(list, envelopes, j) ==
    IF j > Len(envelopes) THEN list
    ELSE PushEach(Append(list,
                         MessageSummary(envelopes[j].hash, envelopes[j].is_seen,
                                        envelopes[j].is_flagged)),
                  envelopes, j + 1)

\* Variant: a failing batch ends the loop and the envelopes collected so far
\* are returned.
RECURSIVE NextBatch_Break(_, _, _)
NextBatch_Break(batches, i, list) ==
    IF i > Len(batches) THEN [ok |-> TRUE, messages |-> list]
    ELSE IF ~batches[i].ok THEN [ok |-> TRUE, messages |-> list]
    ELSE NextBatch_Break(batches, i + 1, PushEach(list, batches[i].envelopes, 1))

\* while let Some(batch_result) = stream.next().await: `?' returns the Err
\* of a failing batch, and messages is dropped
RECURSIVE NextBatch(_, _, _)
NextBatch(batches, i, list) ==
    IF i > Len(batches) THEN [ok |-> TRUE, messages |-> list]
    ELSE IF ~batches[i].ok THEN [ok |-> FALSE, messages |-> << >>]
    ELSE NextBatch(batches, i + 1, PushEach(list, batches[i].envelopes, 1))

fetch_messages(stream) ==
    IF ~stream.started THEN [ok |-> FALSE, messages |-> << >>]
    ELSE NextBatch(stream.batches, 1, << >>)

InitFetch ==
    /\ NoStore
    /\ \E stream \in Streams : eval = Input(stream)

FetchMessages == Apply("fetch_messages", fetch_messages(eval.input))

SpecFetch == InitFetch /\ [][FetchMessages]_vars

(***************************************************************************)
(* setup.rs: the setup form.  A string is the sequence of its characters;  *)
(* eval.input is the model as constructed, eval.result the model after     *)
(* the inputs so far together with the input handled last.                 *)
(***************************************************************************)
MaxFieldLen == 2

\* FieldId::FULL, all fields in tab order
FULL ==
    << "Label", "Server", "Port", "Username", "Password", "Email", "Starttls",
       "SmtpServer", "SmtpPort", "SmtpUsername", "SmtpPassword", "SmtpStarttls" >>

is_toggle(field) == field \in {"Starttls", "SmtpStarttls"}

editable_fields(request) ==
    IF request = "PasswordOnly" THEN << "Password" >> ELSE FULL

is_readonly_Never(request, field) == FALSE

is_readonly(request, field) ==
    \A i \in 1 .. Len(editable_fields(request)) : editable_fields(request)[i] # field

\* SetupInput without Submit and Cancel; the components an input kind does
\* not carry are fixed
SetupInputs ==
    LET Texts == { FULL[i] : i \in 1 .. Len(FULL) } \ {"Starttls", "SmtpStarttls"}
        input(kind, field, value, on, c) ==
            [kind |-> kind, field |-> field, value |-> value, on |-> on, c |-> c]
    IN  { input(k, "Label", << >>, FALSE, "x") :
              k \in {"NextField", "PrevField", "Toggle", "Backspace"} }
        \cup { input("SetField", FULL[i], v, FALSE, "x") :
                   i \in 1 .. Len(FULL), v \in SeqsUpTo({"x"}, 1) }
        \cup { input("SetToggle", FULL[i], << >>, on, "x") :
                   i \in 1 .. Len(FULL), on \in BOOLEAN }
        \cup { input("InsertChar", "Label", << >>, FALSE, c) : c \in {"x", "9"} }

\* SetupModel::from_config_needs for ConfigNeedsInput::PasswordOnly
from_config_needs(needs) ==
    LET digit(d) == << "0", "1", "2", "3", "4", "5", "6", "7", "8", "9" >>[d + 1]
        to_string[n \in Nat] ==
            IF n < 10 THEN << digit(n) >>
            ELSE Append(to_string[n \div 10], digit(n % 10))
    IN  [request      |-> "PasswordOnly",
         text         |-> [Label        |-> << >>,
                           Server       |-> needs.server,
                           Port         |-> to_string[needs.port],
                           Username     |-> needs.username,
                           Password     |-> << >>,
                           Email        |-> << >>,
                           SmtpServer   |-> << >>,
                           SmtpPort     |-> << "5", "8", "7" >>,
                           SmtpUsername |-> << >>,
                           SmtpPassword |-> << >>],
         toggle       |-> [Starttls |-> needs.starttls, SmtpStarttls |-> TRUE],
         active_field |-> "Password",
         error        |-> needs.error]

\* SetupModel::update for every input that continues the form
update(model, input) ==
    LET active == model.active_field
        \* field_mut(field) is Some
        field_mut(field) == ~is_readonly(model.request, field) /\ ~is_toggle(field)
        cycle_field(direction) ==
            LET fields == editable_fields(model.request)
                len == Len(fields)
            IN  IF len <= 1 \/ \A i \in 1 .. len : fields[i] # active THEN model
                ELSE LET idx == CHOOSE i \in 1 .. len : fields[i] = active
                     IN  [model EXCEPT
                              !.active_field = fields[((idx - 1 + direction) % len) + 1]]
    IN  CASE input.kind = "NextField" -> cycle_field(1)
          [] input.kind = "PrevField" -> cycle_field(-1)
          [] input.kind = "Toggle" ->
                IF is_toggle(active) /\ ~is_readonly(model.request, active)
                THEN [model EXCEPT !.toggle[active] = ~model.toggle[active]]
                ELSE model
          [] input.kind = "SetField" ->
                IF ~is_readonly(model.request, input.field) /\ ~is_toggle(input.field)
                THEN [model EXCEPT !.text[input.field] = input.value, !.error = NULL]
                ELSE model
          [] input.kind = "SetToggle" ->
                IF ~is_readonly(model.request, input.field) /\ is_toggle(input.field)
                THEN [model EXCEPT !.toggle[input.field] = input.on]
                ELSE model
          [] input.kind = "InsertChar" ->
                IF field_mut(active)
                THEN [model EXCEPT !.text[active] = Append(model.text[active], input.c),
                                   !.error = NULL]
                ELSE model
          [] input.kind = "Backspace" ->
                IF field_mut(active) /\ model.text[active] # << >>
                THEN [model EXCEPT
                          !.text[active] = SubSeq(model.text[active], 1,
                                                  Len(model.text[active]) - 1)]
                ELSE model

InitSetup ==
    /\ NoStore
    /\ \E needs \in [server : {<< "a" >>, << "b" >>}, port : {143, 993},
                     username : {<< "u" >>}, starttls : BOOLEAN,
                     error : {NULL, "Keyring unavailable for all accounts"}] :
           eval = [fn     |-> "none",
                   input  |-> from_config_needs(needs),
                   result |-> [model |-> from_config_needs(needs),
                               input |-> [kind |-> "none", field |-> "Label",
                                          value |-> << >>, on |-> FALSE, c |-> "x"]]]

Update ==
    /\ \E input \in SetupInputs :
          /\ input.kind = "InsertChar" /\ ~is_toggle(eval.result.model.active_field)
                => Len(eval.result.model.text[eval.result.model.active_field]) < MaxFieldLen
          /\ eval' = [fn     |-> "update",
                      input  |-> eval.input,
                      result |-> [model |-> update(eval.result.model, input),
                                  input |-> input]]
    /\ UNCHANGED << folders, messages, message_fts, attachments, foreign_keys, last, ncmds,
                    handle_vars >>

SpecSetup == InitSetup /\ [][Update]_vars

(***************************************************************************)
(* setup.rs try_submit, Full and Edit arms, on the saved configuration.    *)
(* An account of the file is its id, server and username; label, port,     *)
(* passwords, addresses and SMTP overrides are written along and read by   *)
(* no branch.  eval.input is the model submitted last, eval.result the     *)
(* file after it with the transition returned.                             *)
(***************************************************************************)
MaxAccounts == 2

\* the fields of a model that try_submit reads, in every editable content
SubmitModels ==
    [request  : {[kind |-> "Full", account_id |-> 0]}
                    \cup {[kind |-> "Edit", account_id |-> i] : i \in 1 .. MaxAccounts},
     server   : {<< >>, << "a" >>, << " ", "a" >>},
     username : {<< "u" >>, << "v" >>, << "u", " " >>},
     password : {<< >>, << "p" >>},
     email    : {<< ",", " " >>, << "e" >>},
     port     : {<< "9", "9", "3" >>, << "9", "9", "9", "9", "9" >>, << "x" >>}]

\* io: whether MultiAccountFileConfig::load and save succeed; account_id:
\* what new_account_id returns
try_submit(model, file, io, account_id) ==
    LET trim(s) == Trim(s)
        \* parse_email_list(s).is_empty()
        no_email(s) == \A i \in 1 .. Len(s) : s[i] \in {",", " "}
        digits == << "0", "1", "2", "3", "4", "5", "6", "7", "8", "9" >>
        \* s.parse::<u16>().is_ok() for s without a sign
        parses_u16(s) ==
            LET value[i \in 0 .. Len(s)] ==
                    IF i = 0 THEN 0
                    ELSE value[i - 1] * 10
                             + (CHOOSE d \in 0 .. 9 : digits[d + 1] = s[i])
            IN  /\ s # << >>
                /\ \A i \in 1 .. Len(s) : \E d \in 1 .. 10 : digits[d] = s[i]
                /\ value[Len(s)] <= 65535
        \* validate_full; validate_edit is the same without the password
        validate ==
            IF trim(model.server) = << >> THEN "Server is required"
            ELSE IF trim(model.username) = << >> THEN "Username is required"
            ELSE IF model.request.kind = "Full" /\ model.password = << >>
                 THEN "Password is required"
            ELSE IF no_email(model.email) THEN "At least one email address is required"
            ELSE IF ~parses_u16(trim(model.port)) THEN "Port must be a number (e.g. 993)"
            ELSE NULL
        server == trim(model.server)
        username == trim(model.username)
        \* load().ok().flatten().unwrap_or(no accounts)
        multi == IF io = "load fails" THEN << >> ELSE file
        Continue(err) == [accounts |-> file, transition |-> "Continue", error |-> err]
        save(accounts) ==
            IF io = "save fails" THEN Continue("Failed to save config")
            ELSE [accounts |-> accounts, transition |-> "Finished(Configured)",
                  error |-> model.error]
    IN  IF validate # NULL THEN Continue(validate)
        ELSE IF model.request.kind = "Full"
        THEN IF \E i \in 1 .. Len(multi) :
                    multi[i].server = server /\ multi[i].username = username
             THEN Continue("Account already exists for this server/username")
             ELSE save(Append(multi, [id |-> account_id, server |-> server,
                                      username |-> username]))
        ELSE IF \A i \in 1 .. Len(multi) : multi[i].id # model.request.account_id
        THEN Continue("Account not found in config")
        ELSE LET pos == CHOOSE i \in 1 .. Len(multi) :
                            multi[i].id = model.request.account_id
                 existing == multi[pos]
                 creds_changed ==
                     existing.server # server \/ existing.username # username
             IN  IF creds_changed /\ model.password = << >>
                 THEN Continue("Password required when changing server or username")
                 ELSE save([multi EXCEPT ![pos] =
                               [id |-> model.request.account_id, server |-> server,
                                username |-> username]])

\* no configuration file yet
InitSubmit ==
    /\ NoStore
    /\ eval = [fn     |-> "none",
               input  |-> NULL,
               result |-> [accounts |-> << >>, transition |-> "Continue",
                           error |-> NULL, ids |-> 0]]

\* one form is opened, filled and submitted; ids counts the account ids
\* handed out to saved accounts
TrySubmit ==
    /\ \E fields \in SubmitModels, io \in {"ok", "load fails", "save fails"} :
          LET model == [request |-> fields.request, server |-> fields.server,
                        username |-> fields.username, password |-> fields.password,
                        email |-> fields.email, port |-> fields.port, error |-> NULL]
              r == try_submit(model, eval.result.accounts, io, eval.result.ids + 1)
              pushed == fields.request.kind = "Full"
                            /\ r.transition = "Finished(Configured)"
          IN  /\ fields.request.kind = "Full" => eval.result.ids < MaxAccounts
              /\ eval' = [fn     |-> "try_submit",
                          input  |-> fields,
                          result |-> [accounts   |-> r.accounts,
                                      transition |-> r.transition,
                                      error      |-> r.error,
                                      ids        |-> IF pushed THEN eval.result.ids + 1
                                                     ELSE eval.result.ids]]
    /\ UNCHANGED << folders, messages, message_fts, attachments, foreign_keys, last, ncmds,
                    handle_vars >>

SpecSubmit == InitSubmit /\ [][TrySubmit]_vars

(***************************************************************************)
(* A flag edit against a refresh in flight.  The cache was filled from the *)
(* envelopes the server holds, eval.input.server; the server keeps them    *)
(* until the edit takes effect there, which the confirmation reports.      *)
(* eval.fn is the step taken last, eval.result the list that               *)
(* fetch_messages returned to the refresh.                                 *)
(***************************************************************************)
InitStale ==
    /\ InitHandle
    /\ foreign_keys \in BOOLEAN
    /\ last = NoCmd
    /\ ncmds = 0
    /\ \E M \in EnvelopeLists \ {<< >>}, h \in EnvelopeHashes, f \in FlagBytes, op \in Verbs :
          LET db == do_save_messages(
                        [EmptyStore EXCEPT !.folders["a"] = {Folder("INBOX", 1)}],
                        "a", 1, M).db
          IN  /\ folders = db.folders
              /\ messages = db.messages
              /\ message_fts = IndexRows(db.messages)
              /\ attachments = db.attachments
              /\ eval = [fn     |-> "none",
                         input  |-> [server |-> M, envelope_hash |-> h,
                                     flags |-> f, pending_op |-> op],
                         result |-> [fetched |-> FALSE, list |-> << >>]]

StaleRefresh ==
    LET h == eval.input.envelope_hash
        f == eval.input.flags
        Step(fn, db, result) ==
            /\ folders' = db.folders
            /\ messages' = db.messages
            /\ message_fts' = Triggers(message_fts, messages, messages')
            /\ attachments' = db.attachments
            /\ eval' = [fn |-> fn, input |-> eval.input, result |-> result]
            /\ UNCHANGED << foreign_keys, last, ncmds, handle_vars >>
    IN  \* the refresh fetches the envelopes before the edit reached the server
        \/ /\ eval.fn \in {"none", "update_flags"}
           /\ ~eval.result.fetched
           /\ Step(eval.fn, DB, [fetched |-> TRUE, list |-> eval.input.server])
        \* the flag action writes the optimistic flags
        \/ /\ eval.fn = "none"
           /\ Step("update_flags",
                   do_update_flags(DB, "a", h, f, eval.input.pending_op).db, eval.result)
        \* the server applied the edit; the action confirms it
        \/ /\ eval.fn = "update_flags"
           /\ Step("clear_pending_op", do_clear_pending_op(DB, "a", h, f).db, eval.result)
        \* the refresh saves the list it fetched
        \/ /\ eval.fn = "clear_pending_op"
           /\ eval.result.fetched
           /\ Step("save_messages", do_save_messages(DB, "a", 1, eval.result.list).db,
                   eval.result)

SpecStale == InitStale /\ [][StaleRefresh]_vars

(***************************************************************************)
(* queries.rs do_search: the SELECT.  hits are the rowids that the         *)
(* subquery on message_fts yields for the rewritten query; a rowid is the  *)
(* key of its messages row.                                                *)
(***************************************************************************)
\* LIMIT 200
SearchLimit == 200

\* the messages table, rows of both accounts, each Clean or Dirty, with
\* the rowids the MATCH yields and the query
SearchInputs ==
    LET Cols == [timestamp : {10, 20},
                 pending_op : {NULL, "star"}]
        Row(c) == [mailbox_hash |-> 1, timestamp |-> c.timestamp, flags_server |-> 1,
                   flags_local |-> IF c.pending_op = NULL THEN 1 ELSE 3,
                   pending_op |-> c.pending_op]
    IN  [messages : [Keys -> { Row(c) : c \in Cols } \cup {NoRow}],
         hits     : SUBSET Keys,
         query    : {<< " " >>, << "a" >>}]

\* Variant: the SELECT carries AND m.account_id = 'a'.
SearchRows_OneAccount(msgs, hits) ==
    { k \in hits : msgs[k] # NoRow /\ k[1] = "a" }

\* FROM messages m WHERE m.rowid IN (SELECT rowid FROM message_fts ...)
SearchRows(msgs, hits) == { k \in hits : msgs[k] # NoRow }

\* The Vecs do_search can return: rows of equal timestamp come in an order
\* SQLite does not define.
SearchResults(input) ==
    LET msgs == input.messages
        rows == SearchRows(msgs, input.hits)
        n == Cardinality(rows)
        summary(k) ==
            [envelope_hash |-> k[2],
             mailbox_hash  |-> msgs[k].mailbox_hash,
             timestamp     |-> msgs[k].timestamp,
             is_read       |-> row_to_summary(k[2], msgs[k]).is_read,
             is_starred    |-> row_to_summary(k[2], msgs[k]).is_starred]
    IN  IF ~do_search(input.query).matched THEN {<< >>}
        ELSE { [i \in 1 .. (IF n < SearchLimit THEN n ELSE SearchLimit) |-> summary(s[i])] :
                 s \in { t \in [1 .. n -> rows] :
                           /\ \A i, j \in 1 .. n : i # j => t[i] # t[j]
                           /\ \A i, j \in 1 .. n :
                                 i < j => msgs[t[i]].timestamp >= msgs[t[j]].timestamp } }

InitSearchAll ==
    /\ NoStore
    /\ \E input \in SearchInputs : eval = Input(input)

SearchAll == \E result \in SearchResults(eval.input) : Apply("search", result)

SpecSearchAll == InitSearchAll /\ [][SearchAll]_vars

TypeOK ==
    /\ \A A \in Accounts : folders[A] \subseteq FolderInputs
    /\ ncmds \in 0 .. MaxCmds

(***************************************************************************)
(* Vocabulary of the properties.  `last.before' is the store the command   *)
(* found, the state variables are the store it left.                       *)
(***************************************************************************)
Bit(f, i) == (f \div (2 ^ i)) % 2 = 1

\* pack(is_read, is_starred) of an envelope
Pack(m) == (IF m.is_read THEN 1 ELSE 0) + (IF m.is_starred THEN 2 ELSE 0)

HashesOf(M) == { M[i].envelope_hash : i \in 1 .. Len(M) }

\* the entry of M for h; the last one when M lists h more than once
LastEntry(M, h) ==
    M[CHOOSE i \in 1 .. Len(M) :
        /\ M[i].envelope_hash = h
        /\ \A j \in (i + 1) .. Len(M) : M[j].envelope_hash # h]

Clean(row) == row # NoRow /\ row.pending_op = NULL

\* everything the store holds for account B
AccountView(db, B) ==
    [folders     |-> db.folders[B],
     messages    |-> [h \in EnvelopeHashes |-> db.messages[<< B, h >>]],
     attachments |-> [h \in EnvelopeHashes |-> db.attachments[<< B, h >>]]]

\* the store with the rows of every account but A erased
OnlyAccount(db, A) ==
    [folders     |-> [B \in Accounts |-> IF B = A THEN db.folders[B] ELSE {}],
     messages    |-> [k \in Keys |-> IF k[1] = A THEN db.messages[k] ELSE NoRow],
     attachments |-> [k \in Keys |-> IF k[1] = A THEN db.attachments[k] ELSE << >>]]

\* what a read command returns on store db
ReplyOn(db, c) ==
    IF c.op = "load_folders" THEN do_load_folders(db, c.account_id)
    ELSE IF c.op = "load_messages"
         THEN do_load_messages(db, c.account_id, c.mailbox_hash)
    ELSE IF c.op = "load_body"
         THEN do_load_body(db, c.account_id, c.envelope_hash)
    ELSE NULL

\* the key a flag command addresses
Target == << last.account_id, last.envelope_hash >>

C2_EffectiveFlagLaw ==
    last.op = "load_messages" =>
        \A s \in last.result :
            LET row == messages[<< last.account_id, s.envelope_hash >>]
                eff == IF row.pending_op # NULL THEN row.flags_local
                                                ELSE row.flags_server
            IN  /\ row # NoRow
                /\ s.is_read = Bit(eff, 0)
                /\ s.is_starred = Bit(eff, 1)

\* a load returned a Dirty row with the optimistic star that its server
\* flags do not have, next to a Clean row
C2_Witness ==
    /\ last.op = "load_messages"
    /\ \E s \in last.result :
          LET row == messages[<< last.account_id, s.envelope_hash >>]
          IN  IsPending(row) /\ s.is_starred /\ ~s.is_read /\ row.flags_server = 1
    /\ \E s \in last.result :
          Clean(messages[<< last.account_id, s.envelope_hash >>])

(***************************************************************************)
(* C3.  Account isolation: a command issued for account A creates, changes *)
(* or deletes no folder, message or attachment row of another account B,   *)
(* and what it returns is what it would return if the store held the rows  *)
(* of A only, also when A and B hold the same path, mailbox_hash and       *)
(* envelope_hash.                                                          *)
(***************************************************************************)
C3_AccountIsolation ==
    last.op # "none" =>
        /\ \A B \in Accounts \ {last.account_id} :
              AccountView(DB, B) = AccountView(last.before, B)
        /\ last.result = ReplyOn(OnlyAccount(last.before, last.account_id), last)

\* a command changed the message of A while B holds a message with the same
\* envelope_hash in a folder with the same path and mailbox_hash
C3_Witness ==
    /\ last.op \in {"save_messages", "update_flags", "remove_message", "save_folders"}
    /\ \E B \in Accounts \ {last.account_id}, h \in EnvelopeHashes :
          LET ka == << last.account_id, h >>
              kb == << B, h >>
          IN  /\ last.before.messages[ka] # NoRow
              /\ messages[kb] # NoRow
              /\ last.before.messages[ka].mailbox_hash = messages[kb].mailbox_hash
              /\ messages[ka] # last.before.messages[ka]
              /\ last.before.folders[last.account_id] = folders[B]
              /\ folders[B] # {}

(***************************************************************************)
(* C4.  Sweep correctness: after save_folders(A, F), for every prior store *)
(* and every list F (the empty list and a list that gives a known          *)
(* mailbox_hash a new path included), the mailbox_hash values of A's       *)
(* folder rows are exactly those of F, and no message of A, and no         *)
(* attachment of such a message, remains with a mailbox_hash outside F.    *)
(***************************************************************************)
C4_FolderSetEqualsList ==
    last.op = "save_folders" =>
        /\ FolderHashes(DB, last.account_id) = ServerHashes(last.arg)
        /\ \A k \in AccountKeys(last.account_id) :
              /\ messages[k] # NoRow =>
                    messages[k].mailbox_hash \in ServerHashes(last.arg)
              /\ (/\ last.before.messages[k] # NoRow
                  /\ last.before.messages[k].mailbox_hash \notin ServerHashes(last.arg))
                    => attachments[k] = << >>

(***************************************************************************)
(* C5.  No sweep loses a pending local change: neither the message sweep   *)
(* of save_messages nor the folder sweep of save_folders deletes a message *)
(* row whose pending_op is set, nor that row's flags_local.                *)
(***************************************************************************)
C5_NoSweepDeletesPending ==
    last.op \in {"save_messages", "save_folders"} =>
        \A k \in Keys :
            IsPending(last.before.messages[k]) =>
                /\ messages[k] # NoRow
                /\ messages[k].flags_local = last.before.messages[k].flags_local
                /\ messages[k].pending_op = last.before.messages[k].pending_op

(***************************************************************************)
(* C5, amended.  The message sweep of save_messages never deletes a        *)
(* message row whose pending_op is set and never changes its flags_local   *)
(* or pending_op.  The folder sweep of save_folders keeps, unchanged,      *)
(* every pending row whose mailbox_hash is in the incoming list; a pending *)
(* row of the account whose mailbox_hash is not in the list (any, when the *)
(* list is empty) is deleted with the other messages of that folder when   *)
(* the command succeeds.                                                   *)
(***************************************************************************)
C5_SweepKeepsPendingOfListedFolders ==
    /\ last.op = "save_messages" =>
          \A k \in Keys :
              IsPending(last.before.messages[k]) =>
                  /\ messages[k] # NoRow
                  /\ messages[k].flags_local = last.before.messages[k].flags_local
                  /\ messages[k].pending_op = last.before.messages[k].pending_op
    /\ last.op = "save_folders" =>
          \A k \in Keys :
              IsPending(last.before.messages[k]) =>
                  IF \/ k[1] # last.account_id
                     \/ last.before.messages[k].mailbox_hash \in ServerHashes(last.arg)
                     \/ ~last.ok
                  THEN messages[k] = last.before.messages[k]
                  ELSE messages[k] = NoRow

\* a refresh that does not list a pending row of the mailbox swept a Clean
\* row of that mailbox and kept the pending one
C5_Witness ==
    /\ last.op = "save_messages"
    /\ \E k \in AccountKeys(last.account_id), c \in AccountKeys(last.account_id) :
          /\ IsPending(last.before.messages[k])
          /\ last.before.messages[k].mailbox_hash = last.mailbox_hash
          /\ k[2] \notin HashesOf(last.arg)
          /\ messages[k] = last.before.messages[k]
          /\ Clean(last.before.messages[c])
          /\ last.before.messages[c].mailbox_hash = last.mailbox_hash
          /\ messages[c] = NoRow

(***************************************************************************)
(* C6.  After a successful save_messages(A, mb, M) the envelope hashes     *)
(* load_messages(A, mb) returns are exactly those of M united with those   *)
(* pending in (A, mb) before the call, and every hash of M that was not    *)
(* pending is stored Clean in mb with flags_server = flags_local = the     *)
(* packed flags of its entry, also when the hash already exists in another *)
(* mailbox of A or occurs twice in M.                                      *)
(***************************************************************************)
C6_MailboxHoldsListAndPending ==
    (last.op = "save_messages" /\ last.ok) =>
        LET A   == last.account_id
            mb  == last.mailbox_hash
            M   == last.arg
            was == PendingSet(last.before, A, mb)
        IN  /\ { s.envelope_hash : s \in do_load_messages(DB, A, mb) }
                  = HashesOf(M) \cup was
            /\ \A h \in HashesOf(M) \ was :
                  LET row == messages[<< A, h >>]
                  IN  /\ Clean(row)
                      /\ row.mailbox_hash = mb
                      /\ row.flags_server = row.flags_local
                      /\ \E i \in 1 .. Len(M) :
                            /\ M[i].envelope_hash = h
                            /\ row.flags_server = Pack(M[i])

(***************************************************************************)
(* C7.  update_flags(A, h, f, op) on an existing message, Clean or Dirty,  *)
(* sets flags_local = f and pending_op = op, leaves flags_server, the      *)
(* other columns but the mirrored is_read / is_starred, and every other    *)
(* row unchanged, so that load_messages then reports the bits of f.        *)
(***************************************************************************)
C7_UpdateFlagsSetsLocalOnly ==
    (last.op = "update_flags" /\ last.before.messages[Target] # NoRow) =>
        LET old == last.before.messages[Target]
            new == messages[Target]
        IN  /\ last.ok
            /\ new # NoRow
            /\ new.flags_local = last.arg
            /\ new.pending_op = last.arg2
            /\ new.flags_server = old.flags_server
            /\ new.mailbox_hash = old.mailbox_hash
            /\ new.body_rendered = old.body_rendered
            /\ new.body_markdown = old.body_markdown
            /\ \A k \in Keys \ {Target} : messages[k] = last.before.messages[k]
            /\ folders = last.before.folders
            /\ attachments = last.before.attachments
            /\ \E s \in do_load_messages(DB, last.account_id, new.mailbox_hash) :
                  /\ s.envelope_hash = last.envelope_hash
                  /\ s.is_read = Bit(last.arg, 0)
                  /\ s.is_starred = Bit(last.arg, 1)

\* a Dirty row got other optimistic flags and another verb, its server flags
\* staying different from the new local ones
C7_Witness ==
    /\ last.op = "update_flags"
    /\ IsPending(last.before.messages[Target])
    /\ messages[Target].pending_op # last.before.messages[Target].pending_op
    /\ messages[Target].flags_local # last.before.messages[Target].flags_local
    /\ messages[Target].flags_local # messages[Target].flags_server

(***************************************************************************)
(* C8.  clear_pending_op(A, h, s) on a Dirty message makes it Clean with   *)
(* flags_server = flags_local = s and pending_op = NULL, whatever the two  *)
(* flag columns held before.                                               *)
(***************************************************************************)
C8_ClearMakesCleanWithObserved ==
    (last.op = "clear_pending_op" /\ IsPending(last.before.messages[Target])) =>
        /\ last.ok
        /\ messages[Target] # NoRow
        /\ messages[Target].pending_op = NULL
        /\ messages[Target].flags_server = last.arg
        /\ messages[Target].flags_local = last.arg

\* a Dirty row was confirmed with flags that neither of its columns held
C8_Witness ==
    /\ last.op = "clear_pending_op"
    /\ IsPending(last.before.messages[Target])
    /\ last.before.messages[Target].flags_server # last.arg
    /\ last.before.messages[Target].flags_local # last.arg
    /\ Clean(messages[Target])

(***************************************************************************)
(* C9.  revert_pending_op(A, h) on a Dirty message makes it Clean with     *)
(* flags_local equal to the flags_server it held at that moment (also one  *)
(* written by a save_messages while the row was Dirty) and pending_op =    *)
(* NULL, so that load_messages then reports the server bits and not the    *)
(* optimistic ones.                                                        *)
(***************************************************************************)
C9_RevertRestoresServerFlags ==
    (last.op = "revert_pending_op" /\ IsPending(last.before.messages[Target])) =>
        LET old == last.before.messages[Target]
            new == messages[Target]
        IN  /\ last.ok
            /\ new # NoRow
            /\ new.pending_op = NULL
            /\ new.flags_server = old.flags_server
            /\ new.flags_local = old.flags_server
            /\ \E s \in do_load_messages(DB, last.account_id, new.mailbox_hash) :
                  /\ s.envelope_hash = last.envelope_hash
                  /\ s.is_read = Bit(old.flags_server, 0)
                  /\ s.is_starred = Bit(old.flags_server, 1)

\* the reverted row was Dirty with an optimistic star and with server flags
\* "read" that a refresh had written meanwhile
C9_Witness ==
    /\ last.op = "revert_pending_op"
    /\ IsPending(last.before.messages[Target])
    /\ last.before.messages[Target].flags_local = 2
    /\ last.before.messages[Target].flags_server = 1
    /\ messages[Target].flags_local = 1
    /\ Clean(messages[Target])

(***************************************************************************)
(* C10.  In every reachable state every message row with pending_op = NULL *)
(* has flags_local = flags_server, and save_messages never turns a Dirty   *)
(* row into a Clean one.                                                   *)
(***************************************************************************)
C10_CleanRowsAgree ==
    /\ \A k \in Keys :
          Clean(messages[k]) => messages[k].flags_local = messages[k].flags_server
    /\ last.op = "save_messages" =>
          \A k \in Keys :
              IsPending(last.before.messages[k]) => IsPending(messages[k])

\* a refresh inserted a Clean row with flags set next to a row that it left
\* Dirty with new server flags
C10_Witness ==
    /\ last.op = "save_messages"
    /\ \E k \in Keys, c \in Keys :
          /\ IsPending(last.before.messages[k])
          /\ IsPending(messages[k])
          /\ messages[k].flags_server # last.before.messages[k].flags_server
          /\ last.before.messages[c] = NoRow
          /\ Clean(messages[c])
          /\ messages[c].flags_local # 0

(***************************************************************************)
(* C11.  Legacy mirror: in every state reached by save_messages,           *)
(* update_flags, clear_pending_op or revert_pending_op, every message row  *)
(* has is_read = bit 0 of flags_local and is_starred = bit 1 of            *)
(* flags_local.                                                            *)
(***************************************************************************)
FlagWriters == {"save_messages", "update_flags", "clear_pending_op", "revert_pending_op"}

Mirrors(row) ==
    /\ row.is_read = Bit(row.flags_local, 0)
    /\ row.is_starred = Bit(row.flags_local, 1)

C11_EveryRowMirrorsLocal ==
    last.op \in FlagWriters =>
        \A k \in Keys : messages[k] # NoRow => Mirrors(messages[k])

(***************************************************************************)
(* C11, amended.  After save_messages, update_flags, clear_pending_op or   *)
(* revert_pending_op, every message row the command inserted or changed,   *)
(* and every row that mirrored before the command, has is_read = bit 0 and *)
(* is_starred = bit 1 of flags_local.  A row carried over by the migration *)
(* from a database without flag columns keeps its is_read next to          *)
(* flags_local = 0 until one of these commands writes it.                  *)
(***************************************************************************)
C11_WrittenRowsMirrorLocal ==
    last.op \in FlagWriters =>
        \A k \in Keys :
            LET old == last.before.messages[k]
                new == messages[k]
            IN  (new # NoRow /\ (new # old \/ (old # NoRow /\ Mirrors(old))))
                    => Mirrors(new)

\* a revert changed the legacy columns of a Dirty row together with its
\* flags_local, while a migrated row that does not mirror is in the store
C11_Witness ==
    /\ last.op = "revert_pending_op"
    /\ IsPending(last.before.messages[Target])
    /\ messages[Target].flags_local # last.before.messages[Target].flags_local
    /\ messages[Target].is_starred # last.before.messages[Target].is_starred
    /\ \E k \in Keys : messages[k] # NoRow /\ ~Mirrors(messages[k])

(***************************************************************************)
(* C20.  save_folders, save_messages, save_body and remove_account are     *)
(* all-or-nothing: when a statement of the command fails, the command      *)
(* returns an error and the folders, messages and attachments are exactly  *)
(* as before the command.                                                  *)
(***************************************************************************)
Transactional == {"save_folders", "save_messages", "save_body", "remove_account"}

C20_FailedCommandChangesNothing ==
    (last.op \in Transactional /\ ~last.ok) => DB = last.before

\* a save_folders failed on its second folder (its mailbox_hash belongs to a
\* row of another path) after the upsert of the first had inserted a row
C20_Witness ==
    /\ last.op = "save_folders"
    /\ ~last.ok
    /\ Len(last.arg) = 2
    /\ UpsertFolder(last.before, last.account_id, last.arg[1]).ok
    /\ UpsertFolder(last.before, last.account_id, last.arg[1]).db # last.before
    /\ DB = last.before

(***************************************************************************)
(* C15.  The cache never resolves a Dirty row by itself: a row left Dirty  *)
(* by an update_flags whose resolver was never sent stays Dirty, with its  *)
(* flags_local and pending_op, through every save_messages and save_body,  *)
(* and a Dirty row becomes Clean only by a clear_pending_op or             *)
(* revert_pending_op applied to it.                                        *)
(***************************************************************************)
C15_OnlyResolverCleansDirtyRow ==
    /\ last.op \in {"save_messages", "save_body"} =>
          \A k \in Keys :
              IsPending(last.before.messages[k]) =>
                  /\ IsPending(messages[k])
                  /\ messages[k].pending_op = last.before.messages[k].pending_op
                  /\ messages[k].flags_local = last.before.messages[k].flags_local
    /\ last.op # "none" =>
          \A k \in Keys :
              (IsPending(last.before.messages[k]) /\ Clean(messages[k])) =>
                  /\ last.op \in {"clear_pending_op", "revert_pending_op"}
                  /\ k = Target

\* a body save replaced the attachments of a Dirty row whose flags_server a
\* refresh had rewritten before, and the row is still Dirty
C15_Witness ==
    /\ last.op = "save_body"
    /\ last.ok
    /\ IsPending(last.before.messages[Target])
    /\ last.before.messages[Target].flags_server # last.before.messages[Target].flags_local
    /\ last.before.messages[Target].flags_server # 0
    /\ attachments[Target] # last.before.attachments[Target]
    /\ IsPending(messages[Target])

(***************************************************************************)
(* Vocabulary of the properties of SpecHandle.                             *)
(***************************************************************************)
\* the store after the first n commands of the log, executed one after the
\* other on the store the worker started with
RECURSIVE Replay(_, _, _)
Replay(db, L, n) ==
    IF n = 0 THEN db ELSE Exec(Replay(db, L, n - 1), L[n].cmd).db

\* the flag action of task c has been applied and not resolved
InFlight(c) == task[c].action # NoAction /\ task[c].action.applied

\* load_messages on db reports the bits of f for message h of account "a"
Reports(db, h, f) ==
    /\ Exists(db, << "a", h >>)
    /\ \E s \in do_load_messages(db, "a", db.messages[<< "a", h >>].mailbox_hash) :
          /\ s.envelope_hash = h
          /\ s.is_read = Bit(f, 0)
          /\ s.is_starred = Bit(f, 1)

\* positions in the log of the flag commands on message h
FlagWrites(h) ==
    { i \in 1 .. Len(log) :
        /\ log[i].cmd.op \in {"update_flags", "clear_pending_op", "revert_pending_op"}
        /\ log[i].cmd.envelope_hash = h }

\* the flag command applied last to the message of c's action is c's
\* update_flags
IsLatest(c) ==
    LET W == FlagWrites(task[c].action.envelope_hash)
    IN  /\ W # {}
        /\ LET m == CHOOSE i \in W : \A j \in W : j <= i
           IN  log[m].cmd.op = "update_flags" /\ log[m].cmd.client = c

C17_OneAtATimeInQueueOrder ==
    /\ Len(log) <= Len(sent)
    /\ \A i \in 1 .. Len(log) : log[i].cmd.id = i /\ log[i].cmd = sent[i]
    /\ current # NoCall => current.id = Len(log) + 1
    /\ \A i \in 1 .. Len(queue) :
          queue[i].id = Len(log) + (IF current # NoCall THEN 1 ELSE 0) + i
    /\ DB = Replay(PersistedStore, log, Len(log))
    /\ \A i \in 1 .. Len(log) :
          log[i].reply = Exec(Replay(PersistedStore, log, i - 1), log[i].cmd).reply

\* the load that a task sent after another task's update_flags was executed
\* after it and reports the flags it wrote
C17_Witness ==
    /\ Len(log) = 2
    /\ log[1].cmd.client # log[2].cmd.client
    /\ log[1].cmd.op = "update_flags"
    /\ log[2].cmd.op = "load_messages"
    /\ \E s \in log[2].reply.result :
          /\ s.envelope_hash = log[1].cmd.envelope_hash
          /\ s.is_read = Bit(log[1].cmd.arg, 0)
          /\ s.is_starred = Bit(log[1].cmd.arg, 1)
          /\ s.is_read

(***************************************************************************)
(* C18.  When the worker is gone, every cache operation completes with the *)
(* error "Cache unavailable": one submitted afterwards, and one that was   *)
(* submitted before and not yet answered.  None hangs, none succeeds.      *)
(***************************************************************************)
C18_WorkerGoneMeansUnavailable ==
    worker # "running" =>
        \A c \in Clients :
            /\ task[c].pc = "waiting" => task[c].chan \in {"sent", "closed"}
            /\ (task[c].pc = "waiting" /\ ~task[c].answered) => task[c].chan = "closed"
            /\ (task[c].pc = "ready" /\ task[c].calls > 0 /\ ~task[c].answered) =>
                  /\ ~task[c].outcome.ok
                  /\ task[c].outcome.err = "Cache unavailable"

\* the worker panicked with one command in hand; the task that had sent it
\* and the task that called afterwards both got "Cache unavailable"
C18_Witness ==
    /\ worker = "panicked"
    /\ Len(sent) = 1
    /\ \A c \in Clients :
          /\ task[c].pc = "ready"
          /\ task[c].calls = 1
          /\ task[c].outcome.err = "Cache unavailable"

(***************************************************************************)
(* C19.  The worker exits only when every CacheHandle clone has been       *)
(* dropped and it has executed every command that was on the queue; and    *)
(* once every clone has been dropped, it does stop.                        *)
(***************************************************************************)
AllDropped == \A c \in Clients : task[c].pc = "dropped"

C19_WorkerExitsAfterDrainingQueue ==
    /\ [](worker = "exited" =>
             /\ AllDropped
             /\ queue = << >>
             /\ current = NoCall
             /\ Len(log) = Len(sent))
    /\ (AllDropped ~> worker # "running")

\* the worker exited after it executed the commands of two tasks that were
\* dropped while their commands were on the queue
C19_Witness ==
    /\ worker = "exited"
    /\ Len(log) = 2
    /\ \A c \in Clients : task[c].calls = 1 /\ ~task[c].answered

(***************************************************************************)
(* C21.  remove_message deletes the message and its attachments in one     *)
(* transaction: after the command either the message row and all of its    *)
(* attachment rows are gone, or (on error) both are as they were before.   *)
(***************************************************************************)
C21_RemoveMessageAllOrNothing ==
    last.op = "remove_message" =>
        IF last.ok
        THEN messages[Target] = NoRow /\ attachments[Target] = << >>
        ELSE /\ messages[Target] = last.before.messages[Target]
             /\ attachments[Target] = last.before.attachments[Target]

(***************************************************************************)
(* C23.  In every reachable state each message row's (account_id,          *)
(* mailbox_hash) identifies a folder row of the same account; a            *)
(* save_messages for a mailbox without folder row leaves no message.       *)
(***************************************************************************)
C23_EveryMessageHasItsFolder ==
    \A k \in Keys :
        Exists(DB, k) => messages[k].mailbox_hash \in FolderHashes(DB, k[1])

(***************************************************************************)
(* C24.  In every reachable state, within one account no two folder rows   *)
(* share a path and no two folder rows share a mailbox_hash, also after a  *)
(* save_folders whose list gives an existing path a new handle or an       *)
(* existing handle a new path.                                             *)
(***************************************************************************)
C24_PathAndHandleUniquePerAccount ==
    \A A \in Accounts :
        \A r1, r2 \in folders[A] :
            (r1.path = r2.path \/ r1.mailbox_hash = r2.mailbox_hash) => r1 = r2

\* a successful save_folders gave an existing path of the account a new
\* handle, and the row of that path now carries it
C24_Witness ==
    /\ last.op = "save_folders"
    /\ last.ok
    /\ \E i \in 1 .. Len(last.arg) :
          \E r \in last.before.folders[last.account_id] :
              /\ r.path = last.arg[i].path
              /\ r.mailbox_hash # last.arg[i].mailbox_hash
              /\ last.arg[i] \in folders[last.account_id]
              /\ r \notin folders[last.account_id]

(***************************************************************************)
(* C22.  After save_body(A, h, md, plain, atts) on an existing message,    *)
(* load_body(A, h) returns exactly (md, plain, atts), the attachments in   *)
(* the given order and none of those stored before; load_body returns      *)
(* nothing for a message whose body was never saved and for a message that *)
(* does not exist.                                                         *)
(***************************************************************************)
C22_LoadBodyReturnsSavedBody ==
    /\ (last.op = "save_body" /\ last.before.messages[Target] # NoRow) =>
          /\ last.ok
          /\ do_load_body(DB, last.account_id, last.envelope_hash) =
                [body_markdown |-> last.arg2[1],
                 body_plain    |-> last.arg2[2],
                 attachments   |-> last.arg]
    /\ last.op = "load_body" =>
          ((messages[Target] = NoRow \/ messages[Target].body_rendered = NULL)
              => last.result = NULL)

\* a save_body replaced the one attachment of a message by two others in
\* the order b.txt, a.txt and its body by the empty one, and load_body
\* returns them
C22_Witness ==
    /\ last.op = "save_body"
    /\ last.before.attachments[Target] = << "a.txt" >>
    /\ last.before.messages[Target] # NoRow
    /\ last.before.messages[Target].body_rendered = "plain"
    /\ last.arg = << "b.txt", "a.txt" >>
    /\ do_load_body(DB, last.account_id, last.envelope_hash) =
          [body_markdown |-> "", body_plain |-> "", attachments |-> << "b.txt", "a.txt" >>]

(***************************************************************************)
(* C25.  load_messages returns the messages of the mailbox so that all     *)
(* messages with the same thread key (thread_id, or envelope_hash when     *)
(* thread_id is absent) are contiguous, threads appear in descending order *)
(* of their newest timestamp, and inside a thread timestamps ascend.       *)
(***************************************************************************)
C25_ThreadsClusterNewestFirst ==
    eval.fn = "do_load_messages" =>
        LET R == eval.result
            n == Len(R)
            Newest(i) ==
                Max({ R[j].timestamp : j \in { x \in 1 .. n : ThreadKey(R[x]) = ThreadKey(R[i]) } })
        IN  /\ \A i \in 1 .. n : R[i] \in eval.input.rows
            /\ \A i, j \in 1 .. n : i # j => R[i] # R[j]
            /\ (eval.input.offset = 0 /\ eval.input.limit >= Cardinality(eval.input.rows))
                  => { R[i] : i \in 1 .. n } = eval.input.rows
            /\ \A i, j, k \in 1 .. n :
                  (i < j /\ j < k /\ ThreadKey(R[i]) = ThreadKey(R[k]))
                      => ThreadKey(R[j]) = ThreadKey(R[i])
            /\ \A i, j \in 1 .. n : i < j => Newest(i) >= Newest(j)
            /\ \A i, j \in 1 .. n :
                  (i < j /\ ThreadKey(R[i]) = ThreadKey(R[j]))
                      => R[i].timestamp <= R[j].timestamp

\* the whole mailbox was loaded: the thread of message 1 (message 1 without
\* thread_id, and a message with thread_id 1) holds the oldest and the
\* newest message and comes, oldest first, before the third message
C25_Witness ==
    /\ eval.fn = "do_load_messages"
    /\ Len(eval.result) = 3
    /\ eval.result[1].timestamp = 10
    /\ eval.result[2].timestamp = 30
    /\ eval.result[3].timestamp = 20
    /\ eval.result[1].envelope_hash = 1
    /\ eval.result[1].thread_id = NoThread
    /\ eval.result[2].thread_id = 1
    /\ ThreadKey(eval.result[3]) # 1

(***************************************************************************)
(* Vocabulary of C26: the claim's reading of a query.                      *)
(***************************************************************************)
Blank(q) == \A i \in 1 .. Len(q) : q[i] = " "

\* r is the tokens of q, each with its star when due (only ASCII letters,
\* digits and underscore, at least 3 characters, no star at the end), in
\* the order of q and separated by one space each
RECURSIVE IsRewritten(_, _)
IsRewritten(q, r) ==
    IF Blank(q) THEN r = << >>
    ELSE LET StarDue(t) ==
                 /\ \A i \in 1 .. Len(t) : t[i] \in {"a", "_"}
                 /\ Len(t) >= 3
                 /\ t[Len(t)] # "*"
             \* positions where a token of q starts and ends
             TokenStart(i) == q[i] # " " /\ (i = 1 \/ q[i - 1] = " ")
             TokenEnd(i) == q[i] # " " /\ (i = Len(q) \/ q[i + 1] = " ")
             a == CHOOSE i \in 1 .. Len(q) : TokenStart(i) /\ \A j \in 1 .. (i - 1) : q[j] = " "
             b == CHOOSE i \in a .. Len(q) : TokenEnd(i) /\ \A j \in a .. i : q[j] # " "
             t == SubSeq(q, a, b)
             w == IF StarDue(t) THEN Append(t, "*") ELSE t
             rest == SubSeq(q, b + 1, Len(q))
         IN  /\ Len(r) >= Len(w)
             /\ SubSeq(r, 1, Len(w)) = w
             /\ IF Blank(rest) THEN Len(r) = Len(w)
                ELSE /\ Len(r) > Len(w) + 1
                     /\ r[Len(w) + 1] = " "
                     /\ IsRewritten(rest, SubSeq(r, Len(w) + 2, Len(r)))

(***************************************************************************)
(* C26.  The query rewriter maps a non-blank query without double quote to *)
(* its whitespace-separated tokens, a token getting '*' appended exactly   *)
(* when it consists only of ASCII letters, digits and underscore, has      *)
(* length at least 3 and does not end in '*'; a query containing a double  *)
(* quote is passed to the index unchanged; a blank query returns an empty  *)
(* result without querying the index.                                      *)
(***************************************************************************)
C26_RewriterAsClaimed ==
    eval.fn = "do_search" =>
        LET q == eval.input
            r == eval.result
        IN  IF Blank(q) THEN ~r.matched
            ELSE IF ContainsQuote(q) THEN r.matched /\ r.fts_query = q
            ELSE r.matched /\ IsRewritten(q, r.fts_query)

(***************************************************************************)
(* C26, amended.  As C26, but a query containing a double quote is passed  *)
(* to the index with its leading and trailing whitespace removed and       *)
(* otherwise unchanged.                                                    *)
(***************************************************************************)
C26_QuotedQueryIsTrimmedOnly ==
    eval.fn = "do_search" =>
        LET q == eval.input
            r == eval.result
        IN  IF Blank(q) THEN ~r.matched
            ELSE IF ContainsQuote(q)
            THEN /\ r.matched
                 /\ \E i, j \in 1 .. Len(q) :
                       /\ r.fts_query = SubSeq(q, i, j)
                       /\ q[i] # " " /\ q[j] # " "
                       /\ \A k \in 1 .. Len(q) : (k < i \/ k > j) => q[k] = " "
            ELSE r.matched /\ IsRewritten(q, r.fts_query)

\* the quoted query ` "a" ' reached the index as `"a"'
C26_Witness ==
    /\ eval.fn = "do_search"
    /\ eval.input = << " ", "\"", "a", "\"", " " >>
    /\ eval.result.matched
    /\ eval.result.fts_query = << "\"", "a", "\"" >>

(***************************************************************************)
(* C30.  Whenever the password of a configured account cannot be resolved, *)
(* account resolution reports a PasswordOnly or FullSetup request that     *)
(* names that account: for each failing account, also when other accounts  *)
(* of the same config resolve.                                             *)
(***************************************************************************)
C30_EveryFailingAccountIsNamed ==
    (eval.fn = "resolve_all_accounts" /\ ~eval.input.from_env
        /\ eval.input.file.status = "loaded") =>
        \A i \in 1 .. Len(eval.input.file.accounts) :
            ~resolve_password(eval.input.file.accounts[i], eval.input.keyring).ok =>
                /\ ~eval.result.ok
                /\ eval.result.request \in {"PasswordOnly", "FullSetup"}
                /\ eval.result.account_id = eval.input.file.accounts[i].id

(***************************************************************************)
(* C28.  Running the migrator twice, or N times, on a database of any      *)
(* schema version leaves the same schema and the same folder, message,     *)
(* attachment and search-index rows as running it once.                    *)
(***************************************************************************)
C28_MigratorIsIdempotent ==
    eval.fn = "run_migrations" =>
        \A n \in 1 .. Len(eval.result) : eval.result[n] = eval.result[1]

\* a legacy file with a message, its folder and its attachment, without FTS
\* table, was rebuilt with account-scoped keys by the first run, and the
\* third run left what the first had left
C28_Witness ==
    /\ eval.fn = "run_migrations"
    /\ Len(eval.result) = MaxRuns
    /\ eval.input.version = "legacy"
    /\ ~eval.input.fts_table
    /\ eval.input.messages # {}
    /\ eval.input.attachments # {}
    /\ eval.result[1].version = "scoped"
    /\ eval.result[1].message_fts # << >>
    /\ eval.result[MaxRuns] = eval.result[1]

(***************************************************************************)
(* C29.  Migrating a legacy database whose keys are not account-scoped     *)
(* keeps every legacy folder, message and attachment row exactly once,     *)
(* with account_id equal to the empty string, and afterwards two different *)
(* accounts can each hold a folder with the same path and mailbox_hash.    *)
(***************************************************************************)
C29_LegacyRowsKeptUnderEmptyAccount ==
    (eval.fn = "run_migrations" /\ eval.input.version = "legacy") =>
        LET d == eval.input
            r == eval.result[1]
            \* the rows of table T, without account_id and rowid
            Folders(T) == { << x.path, x.mailbox_hash >> : x \in T }
            Messages(T) == { << x.envelope_hash, x.mailbox_hash, x.body_rendered >> : x \in T }
            Attachments(T) == { << x.envelope_hash, x.idx >> : x \in T }
            \* INSERT INTO folders of the folder f for account A succeeds
            CanHold(T, A, f) ==
                /\ r.version = "scoped"
                /\ ~\E x \in T : /\ x.account_id = A
                                  /\ (x.path = f.path \/ x.mailbox_hash = f.mailbox_hash)
        IN  /\ \A x \in r.folders \cup r.messages \cup r.attachments : x.account_id = ""
            /\ Folders(r.folders) = Folders(d.folders)
            /\ Cardinality(r.folders) = Cardinality(d.folders)
            /\ Messages(r.messages) = Messages(d.messages)
            /\ Cardinality(r.messages) = Cardinality(d.messages)
            /\ Attachments(r.attachments) = Attachments(d.attachments)
            /\ Cardinality(r.attachments) = Cardinality(d.attachments)
            /\ \A f \in FolderInputs :
                  /\ CanHold(r.folders, "x", f)
                  /\ CanHold(r.folders \cup {[account_id |-> "x", path |-> f.path,
                                              mailbox_hash |-> f.mailbox_hash]}, "y", f)

C32_EveryAttachmentHasItsMessage ==
    \A k \in Keys : attachments[k] # << >> => messages[k] # NoRow

(***************************************************************************)
(* C34.  A save_messages refresh of (A, mb) discards the cached body and   *)
(* attachments of every Clean message of that mailbox, also of a message   *)
(* that is present in the incoming list (load_body returns nothing for it  *)
(* afterwards), while every Dirty message keeps its cached body and        *)
(* attachments.                                                            *)
(***************************************************************************)
C34_RefreshDropsCleanBodiesKeepsDirty ==
    (last.op = "save_messages" /\ last.ok) =>
        \A k \in MailboxKeys(last.before, last.account_id, last.mailbox_hash) :
            IF IsPending(last.before.messages[k])
            THEN /\ Exists(DB, k)
                 /\ messages[k].body_rendered = last.before.messages[k].body_rendered
                 /\ messages[k].body_markdown = last.before.messages[k].body_markdown
                 /\ attachments[k] = last.before.attachments[k]
            ELSE /\ do_load_body(DB, k[1], k[2]) = NULL
                 /\ attachments[k] = << >>

\* the refresh found a Dirty message with body and attachment, which it
\* kept, and a Clean message with a body that is in the incoming list and
\* has no body now
C34_Witness ==
    /\ last.op = "save_messages"
    /\ last.ok
    /\ \E k \in MailboxKeys(last.before, last.account_id, last.mailbox_hash) :
          /\ IsPending(last.before.messages[k])
          /\ last.before.messages[k].body_rendered # NULL
          /\ last.before.attachments[k] # << >>
          /\ attachments[k] = last.before.attachments[k]
    /\ \E k \in MailboxKeys(last.before, last.account_id, last.mailbox_hash) :
          /\ ~IsPending(last.before.messages[k])
          /\ last.before.messages[k].body_rendered # NULL
          /\ k[2] \in HashesOf(last.arg)
          /\ Exists(DB, k)
          /\ messages[k].body_rendered = NULL

C38_SaveMessagesIsIdempotent ==
    last.op = "save_messages" =>
        LET again == do_save_messages(DB, last.account_id, last.mailbox_hash, last.arg)
        IN  /\ again.ok = last.ok
            /\ again.db = DB

(***************************************************************************)
(* C31.  An envelope refresh hands save_messages either the complete list  *)
(* of envelopes of the folder or nothing: when any batch of the adapter    *)
(* stream fails, fetch_messages returns an error and no partial list, so a *)
(* failed refresh never sweeps messages that were merely not yet streamed. *)
(***************************************************************************)
C31_CompleteListOrError ==
    eval.fn = "fetch_messages" =>
        LET stream == eval.input
            failed == \/ ~stream.started
                      \/ \E i \in 1 .. Len(stream.batches) : ~stream.batches[i].ok
            \* the envelopes of the batches from the i-th on, in stream order
            all[i \in 1 .. (Len(stream.batches) + 1)] ==
                IF i > Len(stream.batches) THEN << >>
                ELSE stream.batches[i].envelopes \o all[i + 1]
        IN  IF failed
            THEN ~eval.result.ok /\ eval.result.messages = << >>
            ELSE /\ eval.result.ok
                 /\ Len(eval.result.messages) = Len(all[1])
                 /\ \A j \in 1 .. Len(all[1]) :
                       /\ eval.result.messages[j].envelope_hash = all[1][j].hash
                       /\ eval.result.messages[j].is_read = all[1][j].is_seen
                       /\ eval.result.messages[j].is_starred = all[1][j].is_flagged

\* the second batch of a stream failed after the first had brought
\* envelopes: the result is an error without them
C31_Witness ==
    /\ eval.fn = "fetch_messages"
    /\ eval.input.started
    /\ Len(eval.input.batches) = 2
    /\ eval.input.batches[1].ok
    /\ eval.input.batches[1].envelopes # << >>
    /\ ~eval.input.batches[2].ok
    /\ ~eval.result.ok
    /\ eval.result.messages = << >>

\* C33: in the setup model opened for PasswordOnly no sequence of NextField,
\* PrevField, Toggle, SetField, SetToggle, InsertChar and Backspace changes a
\* field other than password: every other text field and both toggles keep
\* the values the model was constructed with, and active_field stays Password
C33_PasswordOnlyChangesOnlyPassword ==
    eval.input.request = "PasswordOnly" =>
        /\ \A f \in (DOMAIN eval.input.text) \ {"Password"} :
               eval.result.model.text[f] = eval.input.text[f]
        /\ eval.result.model.toggle = eval.input.toggle
        /\ eval.result.model.active_field = "Password"

\* a SetField aimed at the server arrives after the password was typed
C33_Witness ==
    /\ eval.input.request = "PasswordOnly"
    /\ eval.result.input.kind = "SetField"
    /\ eval.result.input.field = "Server"
    /\ eval.result.input.value # eval.input.text["Server"]
    /\ eval.result.model.text["Password"] # << >>


\* C39: after any sequence of successful submits, Full account creation and
\* Edit of existing accounts, no two accounts of the saved configuration
\* share the same (server, username) pair
C39_NoTwoAccountsShareServerAndUsername ==
    \A i, j \in 1 .. Len(eval.result.accounts) :
        i # j => \/ eval.result.accounts[i].server # eval.result.accounts[j].server
                 \/ eval.result.accounts[i].username # eval.result.accounts[j].username


\* C35: after a flag action on message m was confirmed by
\* clear_pending_op(m, f), a save_messages whose envelope list was fetched
\* from the server before the edit took effect there, and that is applied
\* after the clear, leaves the effective flags of m at f
C35_StaleRefreshKeepsConfirmedFlags ==
    /\ eval.fn = "save_messages"
    /\ messages[<< "a", eval.input.envelope_hash >>] # NoRow
    => EffectiveFlags(messages[<< "a", eval.input.envelope_hash >>]) = eval.input.flags


\* C37: search takes no account: for a matching query the result holds the
\* matching messages of every account in the cache, newest timestamp first
\* and at most 200, each with its effective flags, so it is never restricted
\* to the rows of one account
C37_SearchSpansEveryAccount ==
    eval.fn = "search" /\ Trim(eval.input.query) # << >> =>
        LET msgs == eval.input.messages
            matching == { k \in eval.input.hits : msgs[k] # NoRow }
            n == Cardinality(matching)
        IN  /\ Len(eval.result) = IF n < 200 THEN n ELSE 200
            /\ \A i, j \in 1 .. Len(eval.result) :
                  i < j => eval.result[i].timestamp >= eval.result[j].timestamp
            /\ n <= 200 =>
                  \E s \in [1 .. n -> matching] :
                      /\ \A k \in matching : \E i \in 1 .. n : s[i] = k
                      /\ \A i \in 1 .. n :
                            /\ eval.result[i].envelope_hash = s[i][2]
                            /\ eval.result[i].timestamp = msgs[s[i]].timestamp
                            /\ << eval.result[i].is_read, eval.result[i].is_starred >>
                                   = flags_from_u8(EffectiveFlags(msgs[s[i]]))

\* the result holds a Dirty message of one account and a message of the other
C37_Witness ==
    /\ eval.fn = "search"
    /\ Len(eval.result) >= 2
    /\ \E k, l \in eval.input.hits :
          /\ k[1] # l[1]
          /\ eval.input.messages[k] # NoRow
          /\ eval.input.messages[l] # NoRow
          /\ eval.input.messages[k].pending_op # NULL


====
